---- MODULE Spec2Model ----
\* Multi-factor authentication server: local login with lockout, TOTP second
\* factor with backup codes, 2FA enrollment, and the session gate.
\* Time is counted in hours.  Random values (TOTP secrets, backup codes) are
\* drawn fresh from counters: two draws never collide.
EXTENDS Integers, Sequences, FiniteSets, TLC

\* ---------------------------------------------------------------- bounds
MaxTime == 3
MaxSecrets == 2
MaxBatches == 2
MaxSessionTime == 11

\* ------------------------------------------------------ program constants
MaxLoginAttempts == 5
LockTime == 2
TenHours == 10
TotpWindow == 1
BackupCodeCount == 10

\* ------------------------------------------------------------ input sets
Clients == {"c1", "c2"}
RegisterEmails == {"A@x"}
LoginEmails == {"A@x", "b@x"}
RegisterPasswords == {"P1"}
Passwords == {"P1", "P2"}
TotpOffsets == {1, 2}

Null == -1
NoUser == 0
NoSecret == 0
NoGoogleId == 0
NoPassword == <<"none">>
NoSession == [user |-> NoUser]
NoToken == [kind |-> "none"]
Idle == [op |-> "idle"]

\* accepted and retired are history variables: how often each tested backup
\* code was accepted as a second factor, and the secrets and backup codes that
\* a disable removed.
VARIABLES now, users, sessions, secretCtr, batchCtr, last, inflight, accepted, retired

vars == <<now, users, sessions, secretCtr, batchCtr, last, inflight, accepted, retired>>

\* ---------------------------------------------------------------- tokens
\* A 6-digit TOTP token is named by the secret it was computed from and by the
\* distance (in 30 s steps) between its step and the server's current step.
TotpTokens == [kind : {"totp"}, secret : 1..MaxSecrets, off : TotpOffsets]

CodeOf_M(batch, slot) == slot

\* crypto.randomBytes(4).toString("hex").toUpperCase(): the value of the
\* slot-th code of the batch-th batch drawn.
CodeOf(batch, slot) == (batch - 1) * BackupCodeCount + slot

\* Of every batch the first code is submitted, typed in lower case.
TestedCodes == {CodeOf(b, 1) : b \in 1..MaxBatches}

BackupTokens == {[kind |-> "backup", code |-> k, lower |-> TRUE] : k \in TestedCodes}

Tokens == {NoToken} \cup TotpTokens \cup BackupTokens

ToUpperCase_M(tok) == tok

\* token.toUpperCase(): stored codes are upper case
ToUpperCase(tok) == IF tok.kind = "backup" THEN [tok EXCEPT !.lower = FALSE] ELSE tok

StoredCode(code) == [kind |-> "backup", code |-> code, lower |-> FALSE]

\* speakeasy.totp.verify({secret, token, window: 1}): wrong length never matches
TotpVerify(secret, tok) ==
    /\ tok.kind = "totp"
    /\ tok.secret = secret
    /\ tok.off <= TotpWindow
    /\ tok.off >= 0 - TotpWindow

\* ----------------------------------------------------------------- users
ToLowerCase(email) == IF email = "A@x" THEN "a@x" ELSE email

Hash(pw) == <<"bcrypt", pw>>

comparePassword_M(user, candidate) == user.password # NoPassword

\* bcrypt.compare(candidatePassword, this.password)
comparePassword(user, candidate) ==
    IF user.password = NoPassword THEN FALSE ELSE user.password = Hash(candidate)

isLocked(user) == user.lockUntil # Null /\ user.lockUntil > now

NewUser(email, pw) ==
    [email |-> ToLowerCase(email), password |-> Hash(pw), authProvider |-> "local",
     isActive |-> TRUE, loginAttempts |-> 0, lockUntil |-> Null,
     isEnabled |-> FALSE, secret |-> NoSecret, backupCodes |-> <<>>,
     enabledAt |-> Null, googleId |-> NoGoogleId]

\* User.createFromGoogleProfile(profile): no password, the profile's id
NewGoogleUser(profile) ==
    [NewUser(profile.email, "none") EXCEPT !.password = NoPassword,
                                           !.authProvider = "google",
                                           !.googleId = profile.id]

findByGoogleId(googleId) ==
    IF \E i \in 1..Len(users) : users[i].googleId = googleId
    THEN CHOOSE i \in 1..Len(users) : users[i].googleId = googleId
    ELSE NoUser

\* The unique indexes of the schema (email; googleId, sparse): the store
\* refuses to insert a document that repeats an indexed value.
DuplicateKey(doc) ==
    \E i \in 1..Len(users) :
        \/ users[i].email = doc.email
        \/ doc.googleId # NoGoogleId /\ users[i].googleId = doc.googleId

findByEmail(email) ==
    IF \E i \in 1..Len(users) : users[i].email = ToLowerCase(email)
    THEN CHOOSE i \in 1..Len(users) : users[i].email = ToLowerCase(email)
    ELSE NoUser

incLoginAttempts_M(user) == [user EXCEPT !.loginAttempts = @ + 1]

incLoginAttempts(user) ==
    IF user.lockUntil # Null /\ user.lockUntil < now
    THEN [user EXCEPT !.lockUntil = Null, !.loginAttempts = 1]
    ELSE IF user.loginAttempts + 1 >= MaxLoginAttempts /\ ~isLocked(user)
         THEN [user EXCEPT !.loginAttempts = @ + 1, !.lockUntil = now + LockTime]
         ELSE [user EXCEPT !.loginAttempts = @ + 1]

resetLoginAttempts_M(user) == [user EXCEPT !.loginAttempts = 0]

resetLoginAttempts(user) == [user EXCEPT !.loginAttempts = 0, !.lockUntil = Null]

generateBackupCodes_M(batch) ==
    [i \in 1..BackupCodeCount |-> [code |-> CodeOf(batch, i), used |-> i = 1, usedAt |-> Null]]

generateBackupCodes(batch) ==
    [i \in 1..BackupCodeCount |-> [code |-> CodeOf(batch, i), used |-> FALSE, usedAt |-> Null]]

\* backupCodes.find(bc => bc.code === token.toUpperCase() && !bc.used): index or 0
FindBackupCode(codes, tok) ==
    LET hits == {i \in 1..Len(codes) :
                    StoredCode(codes[i].code) = ToUpperCase(tok) /\ ~codes[i].used}
    IN IF hits = {} THEN 0 ELSE CHOOSE i \in hits : \A j \in hits : i <= j

MarkUsed_M(codes, i) == [j \in 1..Len(codes) |-> [codes[j] EXCEPT !.used = TRUE, !.usedAt = now]]

MarkUsed(codes, i) == [codes EXCEPT ![i].used = TRUE, ![i].usedAt = now]

\* -------------------------------------------------------------- sessions
\* The session store returns a session only before its expiry.
SessionLive(c) == sessions[c] # NoSession /\ sessions[c].expires > now

isAuthenticated(c) == SessionLive(c)

\* req.login: the session is regenerated, then saved with a fresh cookie
NewSession(u, loginTime, pending, verified) ==
    [user |-> u, loginTime |-> loginTime, expires |-> now + TenHours,
     pendingTwoFactor |-> pending, twoFactorVerified |-> verified]

\* ------------------------------------------------------------- responses
\* The last request handled and its response.  outcome is the verifier's
\* internal reason (what the server logs), lockWas the account's lockUntil
\* when the request arrived, key and codes are secrets revealed in the
\* response body.
R0(op, c) ==
    [op |-> op, c |-> c, status |-> 0, msg |-> "none", requiresTwoFactor |-> FALSE,
     user |-> NoUser, email |-> "none", pw |-> "none", tok |-> NoToken,
     isBackupCode |-> FALSE, codes |-> <<>>, key |-> NoSecret, outcome |-> "none",
     method |-> "none", lockWas |-> Null, isAuthenticated |-> FALSE,
     pendingTwoFactor |-> FALSE]

Init ==
    /\ now = 0
    /\ users = <<>>
    /\ sessions = [c \in Clients |-> NoSession]
    /\ secretCtr = 0
    /\ batchCtr = 0
    /\ last = R0("none", "none")
    /\ inflight = [c \in Clients |-> Idle]
    /\ accepted = [k \in TestedCodes |-> 0]
    /\ retired = [secrets |-> {}, codes |-> {}]

Tick(limit) ==
    /\ now < limit
    /\ now' = now + 1
    /\ UNCHANGED <<users, sessions, secretCtr, batchCtr, last, inflight, accepted, retired>>

\* A request answered without any change of state.
Answer(r) ==
    /\ last' = r
    /\ UNCHANGED <<users, sessions, secretCtr, batchCtr, accepted, retired>>

\* POST /api/auth/register
Register(c, email, pw) ==
    /\ inflight[c] = Idle
    /\ UNCHANGED <<now, inflight>>
    /\ LET r == [R0("register", c) EXCEPT !.email = email, !.pw = pw] IN
       IF findByEmail(email) # NoUser
       THEN Answer([r EXCEPT !.status = 409, !.msg = "User already exists"])
       ELSE /\ users' = Append(users, NewUser(email, pw))
            /\ sessions' = [sessions EXCEPT ![c] = NewSession(Len(users) + 1, Null, FALSE, FALSE)]
            /\ last' = [r EXCEPT !.status = 201, !.msg = "Registration and login successful",
                            !.user = Len(users) + 1]
            /\ UNCHANGED <<secretCtr, batchCtr, accepted, retired>>

\* POST /api/auth/register up to the await of newUser.save(): no account with
\* the email was found.
RegisterBegin(c, email, pw) ==
    /\ inflight[c] = Idle
    /\ findByEmail(email) = NoUser
    /\ inflight' = [inflight EXCEPT ![c] = [op |-> "register", email |-> email, pw |-> pw]]
    /\ UNCHANGED <<now, users, sessions, secretCtr, batchCtr, last, accepted, retired>>

\* ... and from the insert to the response: a refused insert is caught and
\* answered 500.
RegisterSave(c) ==
    LET f == inflight[c]
        r == [R0("register", c) EXCEPT !.email = f.email, !.pw = f.pw]
    IN
    /\ f # Idle
    /\ f.op = "register"
    /\ inflight' = [inflight EXCEPT ![c] = Idle]
    /\ UNCHANGED <<now, secretCtr, batchCtr, accepted, retired>>
    /\ IF DuplicateKey(NewUser(f.email, f.pw))
       THEN /\ last' = [r EXCEPT !.status = 500, !.msg = "Registration failed"]
            /\ UNCHANGED <<users, sessions>>
       ELSE /\ users' = Append(users, NewUser(f.email, f.pw))
            /\ sessions' = [sessions EXCEPT ![c] = NewSession(Len(users) + 1, Null, FALSE, FALSE)]
            /\ last' = [r EXCEPT !.status = 201, !.msg = "Registration and login successful",
                            !.user = Len(users) + 1]

\* The branch the GoogleStrategy verify callback takes.
GooglePlan(profile) ==
    IF findByGoogleId(profile.id) # NoUser
    THEN [step |-> "known", u |-> findByGoogleId(profile.id)]
    ELSE IF findByEmail(profile.email) # NoUser
    THEN [step |-> "link", u |-> findByEmail(profile.email)]
    ELSE [step |-> "create", u |-> Len(users) + 1]

\* The callback route after a successful passport.authenticate("google").
GoogleSession(u, user) == NewSession(u, Null, user.isEnabled, FALSE)

GoogleResp(c, profile, u, user) ==
    [R0("google", c) EXCEPT !.email = profile.email, !.status = 302, !.user = u,
                            !.msg = IF user.isEnabled THEN "/verify-2fa" ELSE "/dashboard"]

\* GET /api/auth/google/callback
Google(c, profile) ==
    /\ inflight[c] = Idle
    /\ UNCHANGED <<now, inflight, secretCtr, batchCtr, accepted, retired>>
    /\ LET plan == GooglePlan(profile) IN
       /\ users' = CASE plan.step = "known" -> users
                      [] plan.step = "link" -> [users EXCEPT ![plan.u].googleId = profile.id]
                      [] OTHER -> Append(users, NewGoogleUser(profile))
       /\ sessions' = [sessions EXCEPT ![c] = GoogleSession(plan.u, users'[plan.u])]
       /\ last' = GoogleResp(c, profile, plan.u, users'[plan.u])

\* GET /api/auth/google/callback up to the await of User.create: neither the
\* Google id nor the email was found.
GoogleBegin(c, profile) ==
    /\ inflight[c] = Idle
    /\ GooglePlan(profile).step = "create"
    /\ inflight' = [inflight EXCEPT ![c] = [op |-> "google", profile |-> profile]]
    /\ UNCHANGED <<now, users, sessions, secretCtr, batchCtr, last, accepted, retired>>

\* ... and from the insert to the response: a refused insert goes to
\* done(error) and the error handler.
GoogleSave(c) ==
    LET f == inflight[c] IN
    /\ f # Idle
    /\ f.op = "google"
    /\ inflight' = [inflight EXCEPT ![c] = Idle]
    /\ UNCHANGED <<now, secretCtr, batchCtr, accepted, retired>>
    /\ IF DuplicateKey(NewGoogleUser(f.profile))
       THEN /\ last' = [R0("google", c) EXCEPT !.email = f.profile.email, !.status = 500,
                                               !.msg = "Internal server error"]
            /\ UNCHANGED <<users, sessions>>
       ELSE /\ users' = Append(users, NewGoogleUser(f.profile))
            /\ sessions' = [sessions EXCEPT ![c] =
                                GoogleSession(Len(users) + 1, NewGoogleUser(f.profile))]
            /\ last' = GoogleResp(c, f.profile, Len(users) + 1, NewGoogleUser(f.profile))

LocalVerify_M(email, pw) ==
    LET u == findByEmail(email) IN
    IF u = NoUser
    THEN [ok |-> FALSE, u |-> NoUser, outcome |-> "not_found",
          msg |-> "Invalid email or password", users |-> users]
    ELSE IF isLocked(users[u])
    THEN [ok |-> FALSE, u |-> u, outcome |-> "locked",
          msg |-> "Account temporarily locked",
          users |-> [users EXCEPT ![u] = incLoginAttempts(@)]]
    ELSE IF ~comparePassword(users[u], pw)
    THEN [ok |-> FALSE, u |-> u, outcome |-> "bad_password",
          msg |-> "Invalid email or password",
          users |-> [users EXCEPT ![u] = incLoginAttempts(@)]]
    ELSE [ok |-> TRUE, u |-> u, outcome |-> "success", msg |-> "none",
          users |-> [users EXCEPT ![u] = resetLoginAttempts(@)]]

\* LocalStrategy verify callback: the outcome and the user documents it leaves
\* in the store.
LocalVerify(email, pw) ==
    LET u == findByEmail(email) IN
    IF u = NoUser
    THEN [ok |-> FALSE, u |-> NoUser, outcome |-> "not_found",
          msg |-> "Invalid email or password", users |-> users]
    ELSE IF isLocked(users[u])
    THEN [ok |-> FALSE, u |-> u, outcome |-> "locked",
          msg |-> "Account temporarily locked", users |-> users]
    ELSE IF ~users[u].isActive
    THEN [ok |-> FALSE, u |-> u, outcome |-> "inactive",
          msg |-> "Account has been deactivated", users |-> users]
    ELSE IF users[u].authProvider = "google" /\ users[u].password = NoPassword
    THEN [ok |-> FALSE, u |-> u, outcome |-> "wrong_provider",
          msg |-> "This account was created with Google", users |-> users]
    ELSE IF ~comparePassword(users[u], pw)
    THEN [ok |-> FALSE, u |-> u, outcome |-> "bad_password",
          msg |-> "Invalid email or password",
          users |-> [users EXCEPT ![u] = incLoginAttempts(@)]]
    ELSE [ok |-> TRUE, u |-> u, outcome |-> "success", msg |-> "none",
          users |-> [users EXCEPT ![u] = resetLoginAttempts(@)]]

verify2FACode_M(user, tok) == [success |-> TRUE, method |-> "totp", idx |-> 0]

\* verify2FACode(user, twoFactorCode): TOTP first, then an unused backup code
verify2FACode(user, tok) ==
    IF TotpVerify(user.secret, tok)
    THEN [success |-> TRUE, method |-> "totp", idx |-> 0]
    ELSE LET i == FindBackupCode(user.backupCodes, tok) IN
         IF i # 0
         THEN [success |-> TRUE, method |-> "backup", idx |-> i]
         ELSE [success |-> FALSE, method |-> "none", idx |-> 0]

\* user.save() after backupCode.used = true: the modified element is written
\* by its position in the stored array ($set "backupCodes.<i>.used"), which
\* the store extends when it has become shorter.
NullCode == [code |-> 0, used |-> FALSE, usedAt |-> Null]

SaveBackupCode(user, i) ==
    LET padded == [j \in 1..i |-> IF j <= Len(user.backupCodes)
                                  THEN user.backupCodes[j] ELSE NullCode]
    IN IF i <= Len(user.backupCodes)
       THEN [user EXCEPT !.backupCodes = MarkUsed(@, i)]
       ELSE [user EXCEPT !.backupCodes = MarkUsed(padded, i)]

Accept(tok) ==
    IF tok.kind = "backup" /\ tok.code \in TestedCodes
    THEN [accepted EXCEPT ![tok.code] = @ + 1]
    ELSE accepted

RequiresSecondFactor_M(user) == TRUE

\* if (user.twoFactorAuth.isEnabled)
RequiresSecondFactor(user) == user.isEnabled

LoginPlan_M(email, pw, tok) ==
    LET a == LocalVerify(email, pw) IN
    IF ~a.ok THEN [step |-> "rejected", a |-> a, idx |-> 0]
    ELSE IF ~RequiresSecondFactor(users[a.u]) THEN [step |-> "complete", a |-> a, idx |-> 0]
    ELSE IF tok = NoToken THEN [step |-> "pending", a |-> a, idx |-> 0]
    ELSE LET v == verify2FACode(users[a.u], tok) IN
         IF ~v.success
         THEN [step |-> "rejected", idx |-> 0,
               a |-> [a EXCEPT !.msg = "Invalid 2FA code",
                               !.users = [users EXCEPT ![a.u] = incLoginAttempts(@)]]]
         ELSE [step |-> v.method, a |-> a, idx |-> v.idx]

\* The branch the login handler takes after passport.authenticate.
LoginPlan(email, pw, tok) ==
    LET a == LocalVerify(email, pw) IN
    IF ~a.ok THEN [step |-> "rejected", a |-> a, idx |-> 0]
    ELSE IF ~RequiresSecondFactor(users[a.u]) THEN [step |-> "complete", a |-> a, idx |-> 0]
    ELSE IF tok = NoToken THEN [step |-> "pending", a |-> a, idx |-> 0]
    ELSE LET v == verify2FACode(users[a.u], tok) IN
         IF ~v.success THEN [step |-> "bad_code", a |-> a, idx |-> 0]
         ELSE [step |-> v.method, a |-> a, idx |-> v.idx]

LoginSession_M(plan) == NewSession(plan.a.u, now, FALSE, FALSE)

\* The session after req.login and the flag writes of the branch taken.
LoginSession(plan) ==
    CASE plan.step = "pending" -> NewSession(plan.a.u, now, TRUE, FALSE)
      [] plan.step \in {"totp", "backup"} -> NewSession(plan.a.u, now, FALSE, TRUE)
      [] OTHER -> NewSession(plan.a.u, now, FALSE, FALSE)

LoginResp_M(c, email, pw, tok, plan) ==
    LET r == [R0("login", c) EXCEPT !.email = email, !.pw = pw, !.tok = tok,
                                     !.outcome = plan.a.outcome]
    IN IF plan.step = "rejected"
       THEN [r EXCEPT !.status = 401, !.msg = plan.a.outcome]
       ELSE [r EXCEPT !.status = 200, !.msg = "Login successful", !.user = plan.a.u]

\* The response of the login handler for the branch taken.
LoginResp(c, email, pw, tok, plan) ==
    LET r == [R0("login", c) EXCEPT !.email = email, !.pw = pw, !.tok = tok,
                                     !.outcome = plan.a.outcome,
                                     !.lockWas = IF plan.a.u = NoUser THEN Null
                                                 ELSE users[plan.a.u].lockUntil]
    IN CASE plan.step = "rejected" -> [r EXCEPT !.status = 401, !.msg = plan.a.msg]
         [] plan.step = "complete" ->
                [r EXCEPT !.status = 200, !.msg = "Login successful", !.user = plan.a.u]
         [] plan.step = "pending" ->
                [r EXCEPT !.status = 200, !.msg = "Login successful. Please provide your 2FA code.",
                          !.requiresTwoFactor = TRUE, !.user = plan.a.u]
         [] plan.step = "bad_code" ->
                [r EXCEPT !.status = 401, !.msg = "Invalid 2FA code", !.requiresTwoFactor = TRUE]
         [] OTHER ->
                [r EXCEPT !.status = 200, !.msg = "Login and 2FA verification successful",
                          !.user = plan.a.u, !.method = plan.step]

\* POST /api/auth/login
Login(c, email, pw, tok) ==
    /\ inflight[c] = Idle
    /\ UNCHANGED <<now, inflight, secretCtr, batchCtr, retired>>
    /\ LET plan == LoginPlan(email, pw, tok) IN
       /\ users' = IF plan.step = "backup"
                   THEN [plan.a.users EXCEPT ![plan.a.u] = SaveBackupCode(@, plan.idx)]
                   ELSE plan.a.users
       /\ sessions' = IF plan.step = "rejected" THEN sessions
                      ELSE [sessions EXCEPT ![c] = LoginSession(plan)]
       /\ accepted' = IF plan.step = "backup" THEN Accept(tok) ELSE accepted
       /\ last' = LoginResp(c, email, pw, tok, plan)

\* POST /api/auth/login up to the await of user.save() in verify2FACode: the
\* backup code was found unused in the document read by the strategy.
LoginBegin(c, email, pw, tok) ==
    LET plan == LoginPlan(email, pw, tok) IN
    /\ inflight[c] = Idle
    /\ plan.step = "backup"
    /\ users' = plan.a.users
    /\ sessions' = [sessions EXCEPT ![c] = NewSession(plan.a.u, now, FALSE, FALSE)]
    /\ inflight' = [inflight EXCEPT ![c] =
                        [op |-> "login", u |-> plan.a.u, idx |-> plan.idx, email |-> email,
                         pw |-> pw, tok |-> tok]]
    /\ UNCHANGED <<now, secretCtr, batchCtr, last, accepted, retired>>

\* ... and from the completion of user.save() to the response.
LoginSave(c) ==
    LET f == inflight[c] IN
    /\ f # Idle
    /\ f.op = "login"
    /\ users' = [users EXCEPT ![f.u] = SaveBackupCode(@, f.idx)]
    /\ sessions' = [sessions EXCEPT ![c] = [@ EXCEPT !.twoFactorVerified = TRUE,
                                                      !.pendingTwoFactor = FALSE,
                                                      !.expires = now + TenHours]]
    /\ accepted' = Accept(f.tok)
    /\ last' = [R0("login", c) EXCEPT !.email = f.email, !.pw = f.pw, !.tok = f.tok,
                    !.outcome = "success", !.status = 200, !.lockWas = users[f.u].lockUntil,
                    !.msg = "Login and 2FA verification successful",
                    !.user = f.u, !.method = "backup"]
    /\ inflight' = [inflight EXCEPT ![c] = Idle]
    /\ UNCHANGED <<now, secretCtr, batchCtr, retired>>

\* ------------------------------------------------------- the session gate
\* req.path as a middleware mounted with app.use("/api/2fa", ...) sees it: the
\* mount point is stripped.
ReqPath(op) ==
    CASE op = "regenerate" -> <<"regenerate-backup-codes">>
      [] OTHER -> <<op>>

\* req.path.startsWith("/api/")
StartsWithApi(path) == Len(path) >= 2 /\ path[1] = "api"

\* checkSessionExpiry: "next", or the rejection it answers with
checkSessionExpiry(c) ==
    IF isAuthenticated(c)
    THEN LET sessionCreatedAt == sessions[c].expires - TenHours
             timeSinceLogin == now - sessionCreatedAt
         IN IF timeSinceLogin > TenHours
            THEN "expired"
            ELSE IF users[sessions[c].user].isEnabled /\ ~sessions[c].twoFactorVerified
                 THEN "2fa"
                 ELSE "next"
    ELSE "next"

\* checkSessionExpiry, then ensureAuthenticated
Pre(c) ==
    LET g == checkSessionExpiry(c) IN
    IF g # "next" THEN g ELSE IF ~isAuthenticated(c) THEN "unauth" ELSE "ok"

\* The response of a request that did not reach its handler.
RejectResp(r, pre) ==
    IF pre = "unauth"
    THEN [r EXCEPT !.status = 401, !.msg = "Authentication required"]
    ELSE IF StartsWithApi(ReqPath(r.op))
    THEN IF pre = "expired"
         THEN [r EXCEPT !.status = 401, !.msg = "Session expired"]
         ELSE [r EXCEPT !.status = 401, !.msg = "2FA required", !.requiresTwoFactor = TRUE]
    ELSE IF pre = "expired"
         THEN [r EXCEPT !.status = 302, !.msg = "/login?reason=session_expired"]
         ELSE [r EXCEPT !.status = 302, !.msg = "/verify-2fa"]

Rejected(c, r) ==
    /\ last' = RejectResp(r, Pre(c))
    /\ sessions' = IF Pre(c) = "expired" THEN [sessions EXCEPT ![c] = NoSession] ELSE sessions
    /\ UNCHANGED <<users, secretCtr, batchCtr, accepted, retired>>

\* The session is written back to the store, with a fresh cookie expiry, only
\* when its data changed.
SaveSession(c, pending, verified) ==
    IF sessions[c].pendingTwoFactor = pending /\ sessions[c].twoFactorVerified = verified
    THEN sessions
    ELSE [sessions EXCEPT ![c] = [@ EXCEPT !.pendingTwoFactor = pending,
                                           !.twoFactorVerified = verified,
                                           !.expires = now + TenHours]]

\* req.user: the document deserializeUser read for this request
ReqUser(c) == users[sessions[c].user]

LogoutSteps_M(session) == <<[session EXCEPT !.user = NoUser], NoSession>>

\* The values the session takes while the logout handler runs: the two flag
\* writes, req.logout (the user is removed and the session saved), and the
\* destruction of the session.
LogoutSteps(session) ==
    LET cleared == [session EXCEPT !.twoFactorVerified = FALSE, !.pendingTwoFactor = FALSE]
    IN <<cleared, [cleared EXCEPT !.user = NoUser], NoSession>>

\* POST /api/auth/logout
Logout(c) ==
    /\ inflight[c] = Idle
    /\ UNCHANGED <<now, inflight>>
    /\ IF ~isAuthenticated(c)
       THEN Answer([R0("logout", c) EXCEPT !.status = 401, !.msg = "Authentication required"])
       ELSE /\ sessions' = [sessions EXCEPT ![c] =
                                LogoutSteps(@)[Len(LogoutSteps(@))]]
            /\ last' = [R0("logout", c) EXCEPT !.status = 200, !.msg = "Logout successful"]
            /\ UNCHANGED <<users, secretCtr, batchCtr, accepted, retired>>

\* Joi.string().min(6).pattern(lower case, upper case, digit): of the
\* candidate passwords only "weak" fails the policy.
ValidNewPassword(pw) == pw # "weak"

\* POST /api/auth/change-password
ChangePassword(c, currentPassword, newPassword) ==
    /\ inflight[c] = Idle
    /\ UNCHANGED <<now, inflight>>
    /\ LET r == [R0("change-password", c) EXCEPT !.pw = currentPassword] IN
       IF ~isAuthenticated(c)
       THEN Answer([r EXCEPT !.status = 401, !.msg = "Authentication required"])
       ELSE IF ReqUser(c).authProvider # "local"
       THEN Answer([r EXCEPT !.status = 400, !.msg = "Invalid operation"])
       ELSE IF ~comparePassword(ReqUser(c), currentPassword)
       THEN Answer([r EXCEPT !.status = 401, !.msg = "Invalid password"])
       ELSE IF ~ValidNewPassword(newPassword)
       THEN Answer([r EXCEPT !.status = 400, !.msg = "Invalid password"])
       ELSE /\ users' = [users EXCEPT ![sessions[c].user].password = Hash(newPassword)]
            /\ last' = [r EXCEPT !.status = 200, !.msg = "Password changed successfully"]
            /\ UNCHANGED <<sessions, secretCtr, batchCtr, accepted, retired>>

Status_M(c) ==
    /\ inflight[c] = Idle
    /\ UNCHANGED <<now, inflight>>
    /\ Answer([R0("status", c) EXCEPT !.status = 200,
                                       !.isAuthenticated = isAuthenticated(c),
                                       !.requiresTwoFactor = isAuthenticated(c)])

\* GET /api/auth/status
Status(c) ==
    /\ inflight[c] = Idle
    /\ UNCHANGED <<now, inflight>>
    /\ IF isAuthenticated(c)
       THEN Answer([R0("status", c) EXCEPT
                        !.status = 200,
                        !.isAuthenticated = TRUE,
                        !.user = sessions[c].user,
                        !.requiresTwoFactor =
                            ReqUser(c).isEnabled /\ ~sessions[c].twoFactorVerified,
                        !.pendingTwoFactor = sessions[c].pendingTwoFactor])
       ELSE Answer([R0("status", c) EXCEPT !.status = 200])

\* ---------------------------------------------------- two-factor routes
CodeValues(codes) == [i \in 1..Len(codes) |-> codes[i].code]

Setup_M(c) ==
    /\ inflight[c] = Idle
    /\ UNCHANGED <<now, inflight>>
    /\ LET r == R0("setup", c) IN
       IF Pre(c) # "ok" THEN Rejected(c, r)
       ELSE IF ReqUser(c).isEnabled
       THEN Answer([r EXCEPT !.status = 400, !.msg = "2FA already enabled"])
       ELSE IF ReqUser(c).secret # NoSecret
       THEN Answer([r EXCEPT !.status = 200, !.msg = "2FA setup initiated",
                             !.key = ReqUser(c).secret])
       ELSE /\ secretCtr < MaxSecrets
            /\ secretCtr' = secretCtr + 1
            /\ users' = [users EXCEPT ![sessions[c].user].secret = secretCtr + 1]
            /\ last' = [r EXCEPT !.status = 200, !.msg = "2FA setup initiated",
                            !.key = secretCtr + 1]
            /\ UNCHANGED <<sessions, batchCtr, accepted, retired>>

\* POST /api/2fa/setup
Setup(c) ==
    /\ inflight[c] = Idle
    /\ UNCHANGED <<now, inflight>>
    /\ LET r == R0("setup", c) IN
       IF Pre(c) # "ok" THEN Rejected(c, r)
       ELSE IF ReqUser(c).isEnabled
       THEN Answer([r EXCEPT !.status = 400, !.msg = "2FA already enabled"])
       ELSE /\ secretCtr < MaxSecrets
            /\ secretCtr' = secretCtr + 1
            /\ users' = [users EXCEPT ![sessions[c].user].secret = secretCtr + 1]
            /\ last' = [r EXCEPT !.status = 200, !.msg = "2FA setup initiated",
                            !.key = secretCtr + 1]
            /\ UNCHANGED <<sessions, batchCtr, accepted, retired>>

\* POST /api/2fa/verify-setup
VerifySetup(c, tok) ==
    /\ inflight[c] = Idle
    /\ UNCHANGED <<now, inflight>>
    /\ LET r == [R0("verify-setup", c) EXCEPT !.tok = tok] IN
       IF Pre(c) # "ok" THEN Rejected(c, r)
       ELSE LET u == sessions[c].user
                user == users[u]
            IN
            IF tok = NoToken
            THEN Answer([r EXCEPT !.status = 400, !.msg = "Token required"])
            ELSE IF user.secret = NoSecret
            THEN Answer([r EXCEPT !.status = 400, !.msg = "No setup in progress"])
            ELSE IF ~TotpVerify(user.secret, tok)
            THEN Answer([r EXCEPT !.status = 401, !.msg = "Invalid token"])
            ELSE /\ batchCtr < MaxBatches
                 /\ batchCtr' = batchCtr + 1
                 /\ users' = [users EXCEPT ![u] =
                                 [@ EXCEPT !.isEnabled = TRUE, !.enabledAt = now,
                                           !.backupCodes = generateBackupCodes(batchCtr + 1)]]
                 /\ last' = [r EXCEPT !.status = 200, !.msg = "2FA enabled successfully!",
                                 !.codes = CodeValues(generateBackupCodes(batchCtr + 1))]
                 /\ UNCHANGED <<sessions, secretCtr, accepted, retired>>

\* POST /api/2fa/setup up to the await of User.findByIdAndUpdate: the user
\* deserialized for the request does not have 2FA enabled, a secret is drawn.
SetupBegin(c) ==
    /\ inflight[c] = Idle
    /\ Pre(c) = "ok"
    /\ ~ReqUser(c).isEnabled
    /\ secretCtr < MaxSecrets
    /\ secretCtr' = secretCtr + 1
    /\ inflight' = [inflight EXCEPT ![c] =
                        [op |-> "setup", u |-> sessions[c].user, idx |-> secretCtr + 1,
                         email |-> "none", pw |-> "none", tok |-> NoToken]]
    /\ UNCHANGED <<now, users, sessions, batchCtr, last, accepted, retired>>

\* ... and from the store's update of twoFactorAuth.secret to the response.
SetupSave(c) ==
    LET f == inflight[c] IN
    /\ f # Idle
    /\ f.op = "setup"
    /\ users' = [users EXCEPT ![f.u].secret = f.idx]
    /\ last' = [R0("setup", c) EXCEPT !.status = 200, !.msg = "2FA setup initiated",
                                      !.key = f.idx]
    /\ inflight' = [inflight EXCEPT ![c] = Idle]
    /\ UNCHANGED <<now, sessions, secretCtr, batchCtr, accepted, retired>>

\* POST /api/2fa/verify-setup up to the await of User.findByIdAndUpdate: the
\* token verified against the secret that User.findById returned.
VerifySetupBegin(c, tok) ==
    /\ inflight[c] = Idle
    /\ Pre(c) = "ok"
    /\ tok # NoToken
    /\ ReqUser(c).secret # NoSecret
    /\ TotpVerify(ReqUser(c).secret, tok)
    /\ inflight' = [inflight EXCEPT ![c] =
                        [op |-> "verify-setup", u |-> sessions[c].user, idx |-> 0,
                         email |-> "none", pw |-> "none", tok |-> tok]]
    /\ UNCHANGED <<now, users, sessions, secretCtr, batchCtr, last, accepted, retired>>

\* ... and from the store's update of isEnabled, enabledAt and backupCodes
\* to the response.
VerifySetupSave(c) ==
    LET f == inflight[c] IN
    /\ f # Idle
    /\ f.op = "verify-setup"
    /\ batchCtr < MaxBatches
    /\ batchCtr' = batchCtr + 1
    /\ users' = [users EXCEPT ![f.u] =
                    [@ EXCEPT !.isEnabled = TRUE, !.enabledAt = now,
                              !.backupCodes = generateBackupCodes(batchCtr + 1)]]
    /\ last' = [R0("verify-setup", c) EXCEPT
                    !.tok = f.tok, !.status = 200, !.msg = "2FA enabled successfully!",
                    !.codes = CodeValues(generateBackupCodes(batchCtr + 1))]
    /\ inflight' = [inflight EXCEPT ![c] = Idle]
    /\ UNCHANGED <<now, sessions, secretCtr, accepted, retired>>

VerifyPlan_M(c, tok, isBackupCode) ==
    LET v == verify2FACode(ReqUser(c), tok) IN
    IF tok = NoToken THEN [step |-> "no_token", idx |-> 0]
    ELSE IF ~ReqUser(c).isEnabled THEN [step |-> "not_enabled", idx |-> 0]
    ELSE IF v.success THEN [step |-> v.method, idx |-> v.idx]
    ELSE [step |-> "invalid", idx |-> 0]

\* The branch the /verify handler takes once the request reached it.
VerifyPlan(c, tok, isBackupCode) ==
    LET i == FindBackupCode(users[sessions[c].user].backupCodes, tok) IN
    IF tok = NoToken THEN [step |-> "no_token", idx |-> 0]
    ELSE IF ~ReqUser(c).isEnabled THEN [step |-> "not_enabled", idx |-> 0]
    ELSE IF isBackupCode
    THEN IF i # 0 THEN [step |-> "backup", idx |-> i] ELSE [step |-> "invalid", idx |-> 0]
    ELSE IF TotpVerify(ReqUser(c).secret, tok)
         THEN [step |-> "totp", idx |-> 0] ELSE [step |-> "invalid", idx |-> 0]

VerifyResp(c, tok, isBackupCode, step) ==
    LET r == [R0("verify", c) EXCEPT !.tok = tok, !.isBackupCode = isBackupCode] IN
    CASE step = "no_token" -> [r EXCEPT !.status = 400, !.msg = "Token required"]
      [] step = "not_enabled" -> [r EXCEPT !.status = 400, !.msg = "2FA not enabled"]
      [] step = "invalid" -> [r EXCEPT !.status = 401, !.msg = "Invalid token"]
      [] OTHER -> [r EXCEPT !.status = 200, !.msg = "2FA verification successful",
                            !.method = step]

\* POST /api/2fa/verify
Verify(c, tok, isBackupCode) ==
    /\ inflight[c] = Idle
    /\ UNCHANGED <<now, inflight>>
    /\ IF Pre(c) # "ok"
       THEN Rejected(c, [R0("verify", c) EXCEPT !.tok = tok, !.isBackupCode = isBackupCode])
       ELSE LET plan == VerifyPlan(c, tok, isBackupCode) IN
            /\ users' = IF plan.step = "backup"
                        THEN [users EXCEPT ![sessions[c].user] = SaveBackupCode(@, plan.idx)]
                        ELSE users
            /\ sessions' = IF plan.step \in {"backup", "totp"}
                           THEN SaveSession(c, FALSE, TRUE) ELSE sessions
            /\ accepted' = IF plan.step = "backup" THEN Accept(tok) ELSE accepted
            /\ last' = VerifyResp(c, tok, isBackupCode, plan.step)
            /\ UNCHANGED <<secretCtr, batchCtr, retired>>

\* POST /api/2fa/verify up to the await of user.save(): the backup code was
\* found unused in the document just read.
VerifyBegin(c, tok) ==
    /\ inflight[c] = Idle
    /\ Pre(c) = "ok"
    /\ VerifyPlan(c, tok, TRUE).step = "backup"
    /\ inflight' = [inflight EXCEPT ![c] =
                        [op |-> "verify", u |-> sessions[c].user,
                         idx |-> VerifyPlan(c, tok, TRUE).idx, email |-> "none",
                         pw |-> "none", tok |-> tok]]
    /\ UNCHANGED <<now, users, sessions, secretCtr, batchCtr, last, accepted, retired>>

\* ... and from the completion of user.save() to the response.
VerifySave(c) ==
    LET f == inflight[c] IN
    /\ f # Idle
    /\ f.op = "verify"
    /\ users' = [users EXCEPT ![f.u] = SaveBackupCode(@, f.idx)]
    /\ sessions' = SaveSession(c, FALSE, TRUE)
    /\ accepted' = Accept(f.tok)
    /\ last' = VerifyResp(c, f.tok, TRUE, "backup")
    /\ inflight' = [inflight EXCEPT ![c] = Idle]
    /\ UNCHANGED <<now, secretCtr, batchCtr, retired>>

Retire(user) ==
    [secrets |-> retired.secrets \cup {user.secret},
     codes |-> retired.codes \cup {user.backupCodes[i].code : i \in 1..Len(user.backupCodes)}]

\* DELETE /api/2fa/disable
Disable(c, pw, tok) ==
    /\ inflight[c] = Idle
    /\ UNCHANGED <<now, inflight>>
    /\ LET r == [R0("disable", c) EXCEPT !.pw = pw, !.tok = tok] IN
       IF Pre(c) # "ok" THEN Rejected(c, r)
       ELSE LET u == sessions[c].user IN
            IF ~ReqUser(c).isEnabled
            THEN Answer([r EXCEPT !.status = 400, !.msg = "2FA not enabled"])
            ELSE IF ReqUser(c).authProvider = "local" /\ ~comparePassword(ReqUser(c), pw)
            THEN Answer([r EXCEPT !.status = 401, !.msg = "Invalid password"])
            ELSE IF tok = NoToken
            THEN Answer([r EXCEPT !.status = 400, !.msg = "Token required"])
            ELSE IF ~TotpVerify(ReqUser(c).secret, tok)
            THEN Answer([r EXCEPT !.status = 401, !.msg = "Invalid token"])
            ELSE /\ users' = [users EXCEPT ![u] =
                                 [@ EXCEPT !.isEnabled = FALSE, !.secret = NoSecret,
                                           !.backupCodes = <<>>, !.enabledAt = Null]]
                 /\ sessions' = SaveSession(c, FALSE, FALSE)
                 /\ retired' = Retire(users[u])
                 /\ last' = [r EXCEPT !.status = 200,
                                 !.msg = "Two-factor authentication has been disabled"]
                 /\ UNCHANGED <<secretCtr, batchCtr, accepted>>

\* DELETE /api/user/account: the account is deactivated, the session ended
Deactivate(c, confirmEmail) ==
    /\ inflight[c] = Idle
    /\ UNCHANGED <<now, inflight>>
    /\ LET r == [R0("account", c) EXCEPT !.email = confirmEmail] IN
       IF Pre(c) # "ok" THEN Rejected(c, r)
       ELSE IF ToLowerCase(confirmEmail) # ToLowerCase(ReqUser(c).email)
       THEN Answer([r EXCEPT !.status = 400, !.msg = "Confirmation required"])
       ELSE /\ users' = [users EXCEPT ![sessions[c].user].isActive = FALSE]
            /\ sessions' = [sessions EXCEPT ![c] = NoSession]
            /\ last' = [r EXCEPT !.status = 200, !.msg = "Account deleted successfully"]
            /\ UNCHANGED <<secretCtr, batchCtr, accepted, retired>>

Regenerate_M(c, tok) ==
    /\ inflight[c] = Idle
    /\ UNCHANGED <<now, inflight>>
    /\ LET r == [R0("regenerate", c) EXCEPT !.tok = tok] IN
       IF Pre(c) # "ok" THEN Rejected(c, r)
       ELSE IF ~ReqUser(c).isEnabled
       THEN Answer([r EXCEPT !.status = 400, !.msg = "2FA not enabled"])
       ELSE /\ batchCtr < MaxBatches
            /\ batchCtr' = batchCtr + 1
            /\ users' = [users EXCEPT ![sessions[c].user].backupCodes =
                                          generateBackupCodes(batchCtr + 1)]
            /\ last' = IF TotpVerify(ReqUser(c).secret, tok)
                       THEN [r EXCEPT !.status = 200, !.msg = "New backup codes generated",
                                      !.codes = CodeValues(generateBackupCodes(batchCtr + 1))]
                       ELSE [r EXCEPT !.status = 401, !.msg = "Invalid token"]
            /\ UNCHANGED <<sessions, secretCtr, accepted, retired>>

\* POST /api/2fa/regenerate-backup-codes
Regenerate(c, tok) ==
    /\ inflight[c] = Idle
    /\ UNCHANGED <<now, inflight>>
    /\ LET r == [R0("regenerate", c) EXCEPT !.tok = tok] IN
       IF Pre(c) # "ok" THEN Rejected(c, r)
       ELSE LET u == sessions[c].user IN
            IF ~ReqUser(c).isEnabled
            THEN Answer([r EXCEPT !.status = 400, !.msg = "2FA not enabled"])
            ELSE IF tok = NoToken
            THEN Answer([r EXCEPT !.status = 400, !.msg = "Token required"])
            ELSE IF ~TotpVerify(ReqUser(c).secret, tok)
            THEN Answer([r EXCEPT !.status = 401, !.msg = "Invalid token"])
            ELSE /\ batchCtr < MaxBatches
                 /\ batchCtr' = batchCtr + 1
                 /\ users' = [users EXCEPT ![u].backupCodes = generateBackupCodes(batchCtr + 1)]
                 /\ last' = [r EXCEPT !.status = 200, !.msg = "New backup codes generated",
                                 !.codes = CodeValues(generateBackupCodes(batchCtr + 1))]
                 /\ UNCHANGED <<sessions, secretCtr, accepted, retired>>

\* -------------------------------------------------------- specifications
\* One browser, every request within the same hour, every login with the
\* account's password (wrong passwords are the subject of SpecLock).
Next ==
    \/ \E e \in RegisterEmails, p \in RegisterPasswords : Register("c1", e, p)
    \/ \E e \in LoginEmails, p \in RegisterPasswords, t \in Tokens : Login("c1", e, p, t)
    \/ Logout("c1")
    \/ Setup("c1")
    \/ \E t \in Tokens : VerifySetup("c1", t)
    \/ \E t \in Tokens, b \in BOOLEAN : Verify("c1", t, b)
    \/ \E p \in Passwords, t \in Tokens : Disable("c1", p, t)
    \/ \E t \in Tokens : Regenerate("c1", t)

Spec == Init /\ [][Next]_vars

\* Password logins of one browser while the hours pass.
NextLock ==
    \/ Tick(MaxTime)
    \/ \E e \in RegisterEmails, p \in RegisterPasswords : Register("c1", e, p)
    \/ \E e \in LoginEmails, p \in Passwords : Login("c1", e, p, NoToken)
    \/ Logout("c1")

SpecLock == Init /\ [][NextLock]_vars

\* Two browsers of the same account; a request that consumes a backup code is
\* two steps, the other requests run between its read and its write.
NextConc ==
    \/ \E e \in RegisterEmails, p \in RegisterPasswords : Register("c1", e, p)
    \/ \E c \in Clients, e \in RegisterEmails, p \in RegisterPasswords, t \in Tokens :
          Login(c, e, p, t)
    \/ \E c \in Clients, e \in RegisterEmails, p \in RegisterPasswords, t \in BackupTokens :
          LoginBegin(c, e, p, t)
    \/ \E c \in Clients : LoginSave(c)
    \/ \E c \in Clients : Setup(c)
    \/ \E c \in Clients, t \in TotpTokens : VerifySetup(c, t)
    \/ \E c \in Clients, t \in BackupTokens : VerifyBegin(c, t)
    \/ \E c \in Clients : VerifySave(c)
    \/ \E c \in Clients, t \in TotpTokens : Regenerate(c, t)

SpecConc == Init /\ [][NextConc]_vars

\* Two browsers of one account whose setup, verify-setup and disable requests
\* overlap: setup and verify-setup are two steps each, from the read of the
\* user to the store's update, and the other requests run between them.
ValidTotps == {t \in TotpTokens : t.off <= TotpWindow}

NextSetup ==
    \/ \E e \in RegisterEmails, p \in RegisterPasswords : Register("c1", e, p)
    \/ \E c \in Clients, e \in RegisterEmails, p \in RegisterPasswords,
          t \in {NoToken} \cup ValidTotps : Login(c, e, p, t)
    \/ \E c \in Clients : SetupBegin(c)
    \/ \E c \in Clients : SetupSave(c)
    \/ \E c \in Clients, t \in ValidTotps : VerifySetupBegin(c, t)
    \/ \E c \in Clients : VerifySetupSave(c)
    \/ \E c \in Clients, p \in RegisterPasswords, t \in ValidTotps : Disable(c, p, t)

SpecSetup == Init /\ [][NextSetup]_vars

\* One browser that enables 2FA, spends and regenerates backup codes and
\* disables 2FA, always with the account's password and tokens inside the window.
NextBatch ==
    \/ \E e \in RegisterEmails, p \in RegisterPasswords : Register("c1", e, p)
    \/ \E e \in RegisterEmails, p \in RegisterPasswords,
          t \in {NoToken} \cup ValidTotps \cup BackupTokens : Login("c1", e, p, t)
    \/ Setup("c1")
    \/ \E t \in ValidTotps : VerifySetup("c1", t)
    \/ \E t \in BackupTokens : Verify("c1", t, TRUE)
    \/ \E t \in ValidTotps : Disable("c1", "P1", t)
    \/ \E t \in ValidTotps : Regenerate("c1", t)

SpecBatch == Init /\ [][NextBatch]_vars

\* user.incLoginAttempts() called on the document `read` that findByEmail
\* returned earlier, applied by the store to the document `stored`: the
\* branch is chosen from the document read, $inc and $set act on the stored one.
ApplyFailure(stored, read) ==
    IF read.lockUntil # Null /\ read.lockUntil < now
    THEN [stored EXCEPT !.lockUntil = Null, !.loginAttempts = 1]
    ELSE IF read.loginAttempts + 1 >= MaxLoginAttempts /\ ~isLocked(read)
         THEN [stored EXCEPT !.loginAttempts = @ + 1, !.lockUntil = now + LockTime]
         ELSE [stored EXCEPT !.loginAttempts = @ + 1]

\* LocalStrategy verify callback up to the await of user.comparePassword:
\* the account was found, not locked and active, and the password is wrong.
FailureBegin(c, email, pw) ==
    LET a == LocalVerify(email, pw) IN
    /\ inflight[c] = Idle
    /\ a.outcome = "bad_password"
    /\ inflight' = [inflight EXCEPT ![c] =
                        [op |-> "failure", u |-> a.u, idx |-> 0, email |-> email,
                         pw |-> pw, tok |-> NoToken, read |-> users[a.u]]]
    /\ UNCHANGED <<now, users, sessions, secretCtr, batchCtr, last, accepted, retired>>

\* ... and from user.incLoginAttempts() to the 401 of the login handler.
FailureSave(c) ==
    LET f == inflight[c] IN
    /\ f # Idle
    /\ f.op = "failure"
    /\ users[f.u].loginAttempts <= MaxLoginAttempts + 1
    /\ users' = [users EXCEPT ![f.u] = ApplyFailure(@, f.read)]
    /\ last' = [R0("login", c) EXCEPT !.email = f.email, !.pw = f.pw, !.status = 401,
                                      !.msg = "Invalid email or password",
                                      !.outcome = "bad_password",
                                      !.lockWas = users[f.u].lockUntil]
    /\ inflight' = [inflight EXCEPT ![c] = Idle]
    /\ UNCHANGED <<now, sessions, secretCtr, batchCtr, accepted, retired>>

\* Two browsers that send wrong passwords for one account at the same time,
\* and right ones, while the hours pass.
NextRace ==
    \/ Tick(MaxTime)
    \/ \E e \in RegisterEmails, p \in RegisterPasswords : Register("c1", e, p)
    \/ \E c \in Clients, e \in RegisterEmails : FailureBegin(c, e, "P2")
    \/ \E c \in Clients : FailureSave(c)
    \/ \E c \in Clients, e \in RegisterEmails, p \in RegisterPasswords :
          Login(c, e, p, NoToken)

SpecRace == Init /\ [][NextRace]_vars

\* Two browsers that register and sign in with Google, with the same address
\* in different spellings, their handlers interleaved at the awaits.
AnyCaseEmails == {"A@x", "a@x", "b@x"}

GoogleProfiles == {[id |-> 1, email |-> "A@x"], [id |-> 2, email |-> "b@x"]}

NextReg ==
    \/ \E c \in Clients, e \in AnyCaseEmails, p \in RegisterPasswords : Register(c, e, p)
    \/ \E c \in Clients, e \in AnyCaseEmails, p \in RegisterPasswords : RegisterBegin(c, e, p)
    \/ \E c \in Clients : RegisterSave(c)
    \/ \E c \in Clients, g \in GoogleProfiles : Google(c, g)
    \/ \E c \in Clients, g \in GoogleProfiles : GoogleBegin(c, g)
    \/ \E c \in Clients : GoogleSave(c)

SpecReg == Init /\ [][NextReg]_vars

\* The current TOTP token of the account's first secret.
CurrentTotp == [kind |-> "totp", secret |-> 1, off |-> 1]

\* user.incLoginAttempts() on its own, for every counter and lock that
\* failures, successes and overlapping requests can leave in the document (a
\* lock is only ever written together with an increment), at every hour.
LockoutInputs ==
    {[NewUser("A@x", "P1") EXCEPT !.loginAttempts = n, !.lockUntil = l] :
        n \in 0..(MaxLoginAttempts + 1), l \in {Null} \cup 0..(MaxTime + LockTime)}

InitFailure ==
    /\ now \in 0..MaxTime
    /\ users \in {<<u>> : u \in {v \in LockoutInputs : v.lockUntil # Null => v.loginAttempts >= 1}}
    /\ sessions = [c \in Clients |-> NoSession]
    /\ secretCtr = 0
    /\ batchCtr = 0
    /\ last = R0("none", "none")
    /\ inflight = [c \in Clients |-> Idle]
    /\ accepted = [k \in TestedCodes |-> 0]
    /\ retired = [secrets |-> {}, codes |-> {}]

RecordFailure(u) ==
    /\ users[u].loginAttempts <= MaxLoginAttempts + 1
    /\ users' = [users EXCEPT ![u] = incLoginAttempts(@)]
    /\ last' = [R0("recordFailure", "none") EXCEPT !.user = u, !.lockWas = users[u].lockUntil]
    /\ UNCHANGED <<now, sessions, secretCtr, batchCtr, inflight, accepted, retired>>

NextFailure ==
    \/ Tick(MaxTime)
    \/ RecordFailure(1)

SpecFailure == InitFailure /\ [][NextFailure]_vars

\* One browser that logs in to an account with 2FA, with right and wrong
\* passwords and with right, wrong, used and no codes, while the hours pass.
WrongTotp == [kind |-> "totp", secret |-> 1, off |-> 2]

FirstBackupCode == [kind |-> "backup", code |-> CodeOf(1, 1), lower |-> TRUE]

NextSecond ==
    \/ Tick(MaxTime)
    \/ \E e \in RegisterEmails, p \in RegisterPasswords : Register("c1", e, p)
    \/ Setup("c1")
    \/ VerifySetup("c1", CurrentTotp)
    \/ \E e \in RegisterEmails, p \in Passwords,
          t \in {NoToken, CurrentTotp, WrongTotp, FirstBackupCode} : Login("c1", e, p, t)

SpecSecond == Init /\ [][NextSecond]_vars

\* Two browsers of one account, each with its own session: logins with and
\* without a code, and the routes that enable and disable 2FA.
NextSessions ==
    \/ \E e \in RegisterEmails, p \in RegisterPasswords : Register("c1", e, p)
    \/ \E c \in Clients, e \in RegisterEmails, p \in RegisterPasswords,
          t \in {NoToken, CurrentTotp, WrongTotp, FirstBackupCode} : Login(c, e, p, t)
    \/ \E c \in Clients : Logout(c)
    \/ \E c \in Clients : Setup(c)
    \/ \E c \in Clients : VerifySetup(c, CurrentTotp)
    \/ \E c \in Clients, t \in {CurrentTotp, FirstBackupCode}, b \in BOOLEAN : Verify(c, t, b)
    \/ \E c \in Clients, p \in RegisterPasswords : Disable(c, p, CurrentTotp)

SpecSessions == Init /\ [][NextSessions]_vars

\* Password logins of one browser to accounts that are missing, local,
\* Google-only, locked or deactivated, while the hours pass.
NextVerifier ==
    \/ Tick(MaxTime)
    \/ \E e \in RegisterEmails, p \in RegisterPasswords : Register("c1", e, p)
    \/ \E g \in GoogleProfiles : Google("c1", g)
    \/ \E e \in LoginEmails, p \in Passwords : Login("c1", e, p, NoToken)
    \/ \E e \in LoginEmails : Deactivate("c1", e)

SpecVerifier == Init /\ [][NextVerifier]_vars

\* One browser that enables 2FA, logs in with and without a code, and sends
\* the requests that change the password, the secret, the backup codes and
\* the enabled flag.
NextChange ==
    \/ \E e \in RegisterEmails, p \in RegisterPasswords : Register("c1", e, p)
    \/ \E e \in RegisterEmails, p \in Passwords, t \in {NoToken, CurrentTotp} :
          Login("c1", e, p, t)
    \/ Setup("c1")
    \/ \E t \in {CurrentTotp, WrongTotp} : VerifySetup("c1", t)
    \/ \E t \in {CurrentTotp, WrongTotp, FirstBackupCode}, b \in BOOLEAN : Verify("c1", t, b)
    \/ \E p \in Passwords, t \in {CurrentTotp, WrongTotp} : Disable("c1", p, t)
    \/ \E t \in {CurrentTotp, WrongTotp} : Regenerate("c1", t)
    \/ \E p \in Passwords, q \in Passwords \cup {"weak"} : ChangePassword("c1", p, q)

SpecChange == Init /\ [][NextChange]_vars

\* Two browsers that sign in with a password or with Google and delete
\* their account.
NextActive ==
    \/ \E e \in RegisterEmails, p \in RegisterPasswords : Register("c1", e, p)
    \/ \E c \in Clients, e \in RegisterEmails, p \in RegisterPasswords :
          Login(c, e, p, NoToken)
    \/ \E c \in Clients, g \in GoogleProfiles : Google(c, g)
    \/ \E c \in Clients, e \in LoginEmails : Deactivate(c, e)
    \/ \E c \in Clients : Logout(c)

SpecActive == Init /\ [][NextActive]_vars

\* Two browsers that sign in with a password or with Google, to accounts with
\* and without 2FA.
NextFed ==
    \/ \E c \in Clients, e \in RegisterEmails, p \in RegisterPasswords : Register(c, e, p)
    \/ \E c \in Clients, e \in RegisterEmails, p \in RegisterPasswords :
          Login(c, e, p, NoToken)
    \/ \E c \in Clients, g \in GoogleProfiles : Google(c, g)
    \/ \E c \in Clients : Logout(c)
    \/ \E c \in Clients : Setup(c)
    \/ \E c \in Clients, t \in TotpTokens : VerifySetup(c, t)

SpecFed == Init /\ [][NextFed]_vars

\* Two browsers that log in, log out and poll their status, within one hour.
NextStatus ==
    \/ \E c \in Clients, e \in RegisterEmails, p \in RegisterPasswords : Register(c, e, p)
    \/ \E c \in Clients, e \in LoginEmails, p \in Passwords, t \in {NoToken, CurrentTotp} :
          Login(c, e, p, t)
    \/ \E c \in Clients : Logout(c)
    \/ \E c \in Clients : Status(c)
    \/ \E c \in Clients : Setup(c)
    \/ \E c \in Clients : VerifySetup(c, CurrentTotp)

SpecStatus == Init /\ [][NextStatus]_vars

\* One browser over more than ten hours: a code, when sent, is CurrentTotp.
NextExpiry ==
    \/ Tick(MaxSessionTime)
    \/ \E e \in RegisterEmails, p \in RegisterPasswords : Register("c1", e, p)
    \/ \E e \in RegisterEmails, p \in RegisterPasswords, t \in {NoToken, CurrentTotp} :
          Login("c1", e, p, t)
    \/ Logout("c1")
    \/ Status("c1")
    \/ Setup("c1")
    \/ VerifySetup("c1", CurrentTotp)
    \/ \E p \in RegisterPasswords : Disable("c1", p, CurrentTotp)

SpecExpiry == Init /\ [][NextExpiry]_vars

\* ----------------------------------------------------------------- claims
\* The account of the last login request, and whether its primary
\* authentication was due to succeed: the account exists, was not locked when
\* the request arrived, is active and the password matches.
LastAccount == findByEmail(last.email)

LastPrimaryOk ==
    /\ last.op = "login"
    /\ LastAccount # NoUser
    /\ (last.lockWas = Null \/ last.lockWas <= now)
    /\ users[LastAccount].isActive
    /\ comparePassword(users[LastAccount], last.pw)

SessionOf(c, u, pending, verified) ==
    /\ isAuthenticated(c)
    /\ sessions[c].user = u
    /\ sessions[c].pendingTwoFactor = pending
    /\ sessions[c].twoFactorVerified = verified

\* C1: a login with correct credentials on an account with 2FA disabled is
\* answered 200 with requiresTwoFactor = false, and leaves the caller's session
\* authenticated for that account with pendingTwoFactor and twoFactorVerified
\* both false, a session the gate lets through.
C1_PlainLoginIsComplete ==
    (LastPrimaryOk /\ ~users[LastAccount].isEnabled)
    => /\ last.status = 200
       /\ ~last.requiresTwoFactor
       /\ last.user = LastAccount
       /\ SessionOf(last.c, LastAccount, FALSE, FALSE)
       /\ Pre(last.c) = "ok"

\* C1 witness: such a login has just been answered.
C1_Witness ==
    /\ LastPrimaryOk
    /\ ~users[LastAccount].isEnabled
    /\ last.status = 200
    /\ Pre(last.c) = "ok"

\* C2: a login with correct credentials and no code on an account with 2FA
\* enabled is answered 200 with requiresTwoFactor = true and the user identity,
\* and leaves the session with pendingTwoFactor = true, twoFactorVerified = false.
C2_LoginWithoutCodeIsPending ==
    (LastPrimaryOk /\ users[LastAccount].isEnabled /\ last.tok = NoToken)
    => /\ last.status = 200
       /\ last.requiresTwoFactor
       /\ last.user = LastAccount
       /\ SessionOf(last.c, LastAccount, TRUE, FALSE)

\* C2 witness: a login without a code on an enabled account has been answered.
C2_Witness ==
    /\ LastPrimaryOk
    /\ users[LastAccount].isEnabled
    /\ last.tok = NoToken
    /\ last.requiresTwoFactor
    /\ sessions[last.c].pendingTwoFactor

\* A second factor the account accepts at this moment: a TOTP token inside the
\* window of its secret, or (with isBackupCode) one of its unused backup codes.
CorrectCode(user, tok, isBackupCode) ==
    IF isBackupCode THEN FindBackupCode(user.backupCodes, tok) # 0
    ELSE TotpVerify(user.secret, tok)

TwoFactorPending(c) ==
    /\ isAuthenticated(c)
    /\ ReqUser(c).isEnabled
    /\ sessions[c].pendingTwoFactor
    /\ ~sessions[c].twoFactorVerified

\* C3: a POST /api/2fa/verify with a correct TOTP token or unused backup code,
\* sent by a session that a login without a code left pending, is answered 200
\* and leaves the session with twoFactorVerified = true, pendingTwoFactor = false.
C3_VerifyCompletesPendingSession ==
    [][\A c \in Clients, t \in Tokens, b \in BOOLEAN :
          (TwoFactorPending(c) /\ CorrectCode(ReqUser(c), t, b) /\ Verify(c, t, b))
          => /\ last'.status = 200
             /\ sessions'[c].twoFactorVerified
             /\ ~sessions'[c].pendingTwoFactor]_vars

\* C3 witness: the gate has answered the verify request of a pending session
\* that carried a correct TOTP token.
C3_Witness ==
    /\ last.op = "verify"
    /\ TwoFactorPending(last.c)
    /\ CorrectCode(ReqUser(last.c), last.tok, last.isBackupCode)
    /\ last.status = 302

\* The account's current batch holds code k, marked used.
UsedInBatch(user, k) ==
    \E i \in 1..Len(user.backupCodes) :
        user.backupCodes[i].code = k /\ user.backupCodes[i].used

InBatch(user, k) ==
    \E i \in 1..Len(user.backupCodes) : user.backupCodes[i].code = k

\* The last request submitted backup code k, as the login call's code or to
\* /api/2fa/verify with isBackupCode = true, and was not the request that
\* consumed it.
SubmittedAgain(k) ==
    /\ \/ last.op = "login"
       \/ last.op = "verify" /\ last.isBackupCode
    /\ last.tok.kind = "backup"
    /\ last.tok.code = k
    /\ last.method # "backup"

\* C4: in a sequential history, a submission of a backup code that the current
\* batch holds as used, through the login call or through /api/2fa/verify with
\* isBackupCode = true, is answered 401, and no code is accepted twice.
C4_UsedCodeIsRejected ==
    \A k \in TestedCodes :
        /\ accepted[k] <= 1
        /\ \A u \in 1..Len(users) :
              (UsedInBatch(users[u], k) /\ SubmittedAgain(k)) => last.status = 401

\* C4, what the sequential histories do keep: a code is accepted at most
\* once, the batch marks exactly the accepted codes as used, and a later
\* submission is never answered 200.
C4_AcceptedAtMostOnce ==
    \A k \in TestedCodes :
        /\ accepted[k] <= 1
        /\ \A u \in 1..Len(users) :
              /\ InBatch(users[u], k) => (UsedInBatch(users[u], k) <=> accepted[k] = 1)
              /\ (UsedInBatch(users[u], k) /\ SubmittedAgain(k)) => last.status \in {401, 302}

\* C4 witness: a used code was submitted again.
C4_Witness ==
    \E k \in TestedCodes, u \in 1..Len(users) :
        UsedInBatch(users[u], k) /\ SubmittedAgain(k)

\* C5: of the requests that submit the same unused backup code, whatever their
\* interleaving, at most one is accepted.
C5_ConcurrentSubmissionsAcceptOne ==
    \A k \in TestedCodes : accepted[k] < 2

\* C5 witness: two requests that found the same code unused are both waiting
\* for their save.
C5_Witness ==
    /\ inflight["c1"] # Idle
    /\ inflight["c2"] # Idle
    /\ inflight["c1"].tok = inflight["c2"].tok

\* An active local account whose password is not the one submitted.
WrongPasswordFor(user, pw) ==
    /\ user.isActive
    /\ user.authProvider = "local"
    /\ ~comparePassword(user, pw)

\* C6: a wrong-password login on an active local account without a lock adds
\* one to the failure counter, and the failure that makes it five sets
\* lockUntil to the time of that failure plus the lock time; a counter of zero
\* has no lock; and a login on an account whose lockUntil is still ahead is
\* answered 401 with the locked outcome, whatever the password, and changes
\* nothing.
C6_FifthFailureLocks ==
    [][\A c \in Clients, e \in LoginEmails, p \in Passwords :
          LET u == findByEmail(e) IN
          (u # NoUser /\ Login(c, e, p, NoToken))
          => /\ (users[u].lockUntil = Null /\ WrongPasswordFor(users[u], p))
                => /\ last'.outcome = "bad_password"
                   /\ users'[u].loginAttempts = users[u].loginAttempts + 1
                   /\ users'[u].lockUntil =
                         IF users[u].loginAttempts + 1 = MaxLoginAttempts
                         THEN now + LockTime ELSE Null
             /\ (users[u].lockUntil # Null /\ now < users[u].lockUntil)
                => /\ last'.outcome = "locked"
                   /\ last'.status = 401
                   /\ UNCHANGED <<users, sessions>>
             /\ (users'[u].loginAttempts = 0 => users'[u].lockUntil = Null)]_vars

\* C6 witness: the fifth failure came one hour after the first requests, and a
\* login with the right password is answered "locked" one hour before the
\* lock ends.
C6_Witness ==
    /\ last.op = "login"
    /\ last.outcome = "locked"
    /\ LastAccount # NoUser
    /\ comparePassword(users[LastAccount], last.pw)
    /\ users[LastAccount].loginAttempts = MaxLoginAttempts
    /\ users[LastAccount].lockUntil = now + 1
    /\ now = LockTime

\* C7: a login with the right password on an active account that is not
\* locked, in particular one whose lock has expired, succeeds and leaves the
\* failure counter at zero and lockUntil cleared.
C7_SuccessClearsLockout ==
    [][\A c \in Clients, e \in LoginEmails, p \in Passwords :
          LET u == findByEmail(e) IN
          (/\ u # NoUser
           /\ ~(users[u].lockUntil # Null /\ now < users[u].lockUntil)
           /\ users[u].isActive
           /\ comparePassword(users[u], p)
           /\ Login(c, e, p, NoToken))
          => /\ last'.outcome = "success"
             /\ last'.status = 200
             /\ users'[u].loginAttempts = 0
             /\ users'[u].lockUntil = Null
             /\ sessions'[c] # NoSession
             /\ sessions'[c].user = u]_vars

\* C7 witness: a login has succeeded on an account whose lock had expired.
C7_Witness ==
    /\ last.op = "login"
    /\ last.outcome = "success"
    /\ last.lockWas # Null
    /\ last.lockWas < now
    /\ users[LastAccount].loginAttempts = 0
    /\ users[LastAccount].lockUntil = Null

\* C8: a verify-setup request carrying a TOTP token valid for the pending
\* secret of an account that is not yet enabled is answered 200 and leaves the
\* account enabled, with enabledAt set to the time of the request and ten
\* backup codes, all unused and pairwise different, whose values are the ones
\* in the response.
C8_ConfirmSetupEnables ==
    [][\A c \in Clients, t \in TotpTokens :
          (/\ isAuthenticated(c)
           /\ ~ReqUser(c).isEnabled
           /\ ReqUser(c).secret # NoSecret
           /\ TotpVerify(ReqUser(c).secret, t)
           /\ VerifySetup(c, t))
          => LET after == users'[sessions[c].user] IN
             /\ last'.status = 200
             /\ after.isEnabled
             /\ after.enabledAt = now
             /\ after.secret = ReqUser(c).secret
             /\ Len(after.backupCodes) = BackupCodeCount
             /\ \A i \in 1..Len(after.backupCodes) : ~after.backupCodes[i].used
             /\ \A i, j \in 1..Len(after.backupCodes) :
                   after.backupCodes[i].code = after.backupCodes[j].code => i = j
             /\ last'.codes = CodeValues(after.backupCodes)]_vars

\* C8 witness: the first confirmation of a setup has been answered with its
\* ten codes.
C8_Witness ==
    /\ last.op = "verify-setup"
    /\ last.status = 200
    /\ batchCtr = 1
    /\ Len(last.codes) = BackupCodeCount
    /\ users[sessions[last.c].user].isEnabled

\* C9: a verify-setup request on an account that is already enabled, carrying
\* a valid TOTP token, is not answered 200 and leaves the backup codes and
\* enabledAt as they were.
C9_ConfirmSetupOnEnabledFails ==
    [][\A c \in Clients, t \in TotpTokens :
          (/\ Pre(c) = "ok"
           /\ ReqUser(c).isEnabled
           /\ TotpVerify(ReqUser(c).secret, t)
           /\ VerifySetup(c, t))
          => /\ last'.status # 200
             /\ users'[sessions[c].user].backupCodes = ReqUser(c).backupCodes
             /\ users'[sessions[c].user].enabledAt = ReqUser(c).enabledAt]_vars

\* C9 witness: a verify-setup request was answered 200 with new codes although
\* the account had been enabled before.
C9_Witness ==
    /\ last.op = "verify-setup"
    /\ last.status = 200
    /\ batchCtr = 2
    /\ secretCtr = 1
    /\ retired.codes = {}

\* C10: an enabled account never has a secret, or a backup code, that a
\* disable removed, its batch has ten codes, and a backup code that a disable
\* removed is not accepted by the login call nor by /api/2fa/verify.
C10_RoundTripIsFresh ==
    /\ \A u \in 1..Len(users) :
          users[u].isEnabled
          => /\ users[u].secret \notin retired.secrets
             /\ Len(users[u].backupCodes) = BackupCodeCount
             /\ \A i \in 1..Len(users[u].backupCodes) :
                   users[u].backupCodes[i].code \notin retired.codes
    /\ last.method = "backup" => last.tok.code \notin retired.codes

\* C10 witness: after disable, setup and verify-setup, a code of the removed
\* batch was submitted with a login and answered 401.
C10_Witness ==
    /\ last.op = "login"
    /\ last.outcome = "success"
    /\ last.tok.kind = "backup"
    /\ last.tok.code \in retired.codes
    /\ users[LastAccount].isEnabled
    /\ last.status = 401

\* A request of browser c on one of the routes mounted behind
\* checkSessionExpiry.
GatedRequest(c) ==
    \/ Setup(c)
    \/ \E t \in Tokens : VerifySetup(c, t)
    \/ \E t \in Tokens, b \in BOOLEAN : Verify(c, t, b)
    \/ \E p \in Passwords, t \in Tokens : Disable(c, p, t)
    \/ \E t \in Tokens : Regenerate(c, t)

\* The browser holds the cookie of a session whose login is more than ten
\* hours old.
OlderThanCeiling(c) ==
    /\ sessions[c] # NoSession
    /\ sessions[c].loginTime # Null
    /\ now - sessions[c].loginTime > TenHours

\* C11: the next request on a gated route of a session whose login is more
\* than ten hours old is answered 401 "Session expired", not "2FA required",
\* and the session is destroyed.
C11_ExpiredSessionGetsFullReauth ==
    [][\A c \in Clients :
          (OlderThanCeiling(c) /\ GatedRequest(c))
          => /\ last'.status = 401
             /\ last'.msg = "Session expired"
             /\ sessions'[c] = NoSession]_vars

\* C11 witness: a gated request of a session of an enabled account, not
\* twoFactorVerified and older than ten hours, was answered "Authentication
\* required".
C11_Witness ==
    /\ last.op = "setup"
    /\ OlderThanCeiling(last.c)
    /\ users[sessions[last.c].user].isEnabled
    /\ ~sessions[last.c].twoFactorVerified
    /\ last.msg = "Authentication required"

\* C12: a request on a gated route of a session whose login is more than ten
\* hours old does not reach its handler, whatever the session did in between.
C12_CeilingCountsFromLogin ==
    [][\A c \in Clients :
          (OlderThanCeiling(c) /\ GatedRequest(c))
          => /\ Pre(c) # "ok"
             /\ last'.status \in {401, 302}]_vars

\* C12 witness: the setup handler served a session more than ten hours after
\* its login.
C12_Witness ==
    /\ last.op = "setup"
    /\ last.status = 200
    /\ OlderThanCeiling(last.c)

\* C13: no route serves a session whose login is more than ten hours old:
\* its logout is not answered 200 and its status request does not report it
\* as authenticated.
C13_AuthRoutesApplyCeiling ==
    [][\A c \in Clients :
          OlderThanCeiling(c)
          => /\ ~(Logout(c) /\ last'.status = 200)
             /\ ~(Status(c) /\ last'.isAuthenticated)]_vars

\* C13 witness: the status route reported a session as authenticated more
\* than ten hours after its login.
C13_Witness ==
    /\ last.op = "status"
    /\ last.isAuthenticated
    /\ OlderThanCeiling(last.c)

\* An authenticated session of an account with 2FA enabled that has not passed
\* the second factor.
SecondFactorMissing(c) ==
    /\ isAuthenticated(c)
    /\ ReqUser(c).isEnabled
    /\ ~sessions[c].twoFactorVerified

\* C14: a request on a gated route of an authenticated session of an enabled
\* account without twoFactorVerified is answered 401 "2FA required" with
\* requiresTwoFactor, and the handler changes nothing.
C14_GateSignalsTwoFactorRequired ==
    [][\A c \in Clients :
          (SecondFactorMissing(c) /\ GatedRequest(c))
          => /\ last'.status = 401
             /\ last'.msg = "2FA required"
             /\ last'.requiresTwoFactor
             /\ UNCHANGED <<users, sessions>>]_vars

\* C14 witness: the gate answered such a request with the redirect.
C14_Witness ==
    /\ last.op = "regenerate"
    /\ SecondFactorMissing(last.c)
    /\ last.status = 302
    /\ last.msg = "/verify-2fa"
    /\ ~last.requiresTwoFactor

\* C15: a logout of an authenticated session, pending or verified, is
\* answered 200 and leaves no session, and every value the session takes on
\* the way that has no user any more has both second-factor flags false.
C15_LogoutClearsThenDestroys ==
    [][\A c \in Clients :
          (isAuthenticated(c) /\ Logout(c))
          => LET steps == LogoutSteps(sessions[c]) IN
             /\ last'.status = 200
             /\ sessions'[c] = NoSession
             /\ \A i \in 1..Len(steps) :
                   (steps[i] # NoSession /\ steps[i].user = NoUser)
                   => ~steps[i].twoFactorVerified /\ ~steps[i].pendingTwoFactor]_vars

\* C15 witness: a logout of a session of an enabled account was answered 200
\* right after a login that left the session pending or verified.
C15_Witness ==
    /\ last.op = "logout"
    /\ last.status = 200
    /\ sessions[last.c] = NoSession
    /\ Len(users) = 1
    /\ users[1].isEnabled

\* C16: a status request is answered 200; without an authenticated session it
\* reports isAuthenticated, requiresTwoFactor and pendingTwoFactor false and no
\* user; with one it reports isAuthenticated true, the session's user,
\* requiresTwoFactor exactly when the account is enabled and the session not
\* twoFactorVerified (the sessions the gate stops), and the session's
\* pendingTwoFactor flag; it changes nothing.
C16_StatusReportsDerivedState ==
    [][\A c \in {last'.c} \cap Clients :
          (last'.op = "status" /\ Status(c))
          => /\ last'.status = 200
             /\ last'.isAuthenticated = isAuthenticated(c)
             /\ isAuthenticated(c)
                => /\ last'.user = sessions[c].user
                   /\ last'.requiresTwoFactor = SecondFactorMissing(c)
                   /\ last'.requiresTwoFactor = (checkSessionExpiry(c) = "2fa")
                   /\ last'.pendingTwoFactor = sessions[c].pendingTwoFactor
             /\ ~isAuthenticated(c)
                => /\ last'.user = NoUser
                   /\ ~last'.requiresTwoFactor
                   /\ ~last'.pendingTwoFactor
             /\ UNCHANGED <<users, sessions>>]_vars

\* C16 witness: the status of a pending session was reported.
C16_Witness ==
    /\ last.op = "status"
    /\ last.isAuthenticated
    /\ last.requiresTwoFactor
    /\ last.pendingTwoFactor
    /\ TwoFactorPending(last.c)

\* The account has none of its two-factor material left.
TwoFactorCleared(user) ==
    /\ ~user.isEnabled
    /\ user.secret = NoSecret
    /\ user.backupCodes = <<>>
    /\ user.enabledAt = Null

\* C17: a disable request is answered 200 only when the account is enabled,
\* the password is the account's (local accounts) and the token is a TOTP code
\* of the account's secret within the window; a token that is an unused backup
\* code of the account is never accepted; on success the account's secret,
\* backup codes, enabled flag and enabledAt are cleared in that one step and
\* the calling session has twoFactorVerified and pendingTwoFactor false; any
\* other answer leaves the accounts unchanged.
C17_DisableNeedsPasswordAndTotp ==
    [][\A c \in {last'.c} \cap Clients, p \in {last'.pw} \cap Passwords,
          t \in {last'.tok} \cap Tokens :
          (last'.op = "disable" /\ Disable(c, p, t))
          => /\ last'.status = 200
                => /\ ReqUser(c).isEnabled
                   /\ ReqUser(c).authProvider = "local" => ReqUser(c).password = Hash(p)
                   /\ t.kind = "totp"
                   /\ t.secret = ReqUser(c).secret
                   /\ t.off \in (0 - TotpWindow)..TotpWindow
                   /\ FindBackupCode(ReqUser(c).backupCodes, t) = 0
                   /\ TwoFactorCleared(users'[sessions[c].user])
                   /\ \A u \in 1..Len(users) : u # sessions[c].user => users'[u] = users[u]
                   /\ ~sessions'[c].twoFactorVerified
                   /\ ~sessions'[c].pendingTwoFactor
             /\ last'.status # 200 => UNCHANGED users]_vars

\* C17 witness: a disable with the password and a current TOTP code succeeded
\* on an account that held unused backup codes.
C17_Witness ==
    /\ last.op = "disable"
    /\ last.status = 200
    /\ last.tok.kind = "totp"
    /\ sessions[last.c] # NoSession
    /\ TwoFactorCleared(ReqUser(last.c))
    /\ ~sessions[last.c].twoFactorVerified
    /\ retired.codes # {}

\* The codes drawn so far, and those the accounts hold now.
IssuedCodes == {CodeOf(b, i) : b \in 1..batchCtr, i \in 1..BackupCodeCount}

CurrentCodes ==
    {users[u].backupCodes[i].code : u \in 1..Len(users), i \in 1..BackupCodeCount}

\* The token is a backup code of a batch that has been replaced.
ReplacedCode(tok) ==
    /\ tok.kind = "backup"
    /\ tok.code \in IssuedCodes
    /\ \A u \in 1..Len(users) : ~InBatch(users[u], tok.code)

\* C18: a regeneration is answered 200 only for an enabled account and a TOTP
\* code of its secret within the window, and then stores BackupCodeCount
\* distinct unused codes none of which was in the batch it replaces; a request
\* that submits a code of a replaced batch, through the login call or through
\* /api/2fa/verify, never has it accepted: no such request gets as far as
\* consuming the code, and none ends with the code as its accepted method.
C18_RegenerationReplacesBatch ==
    [][/\ (last'.op = "regenerate" /\ last'.status = 200)
          => \A c \in {last'.c} \cap Clients, t \in {last'.tok} \cap Tokens :
             Regenerate(c, t)
             => /\ ReqUser(c).isEnabled
                /\ t.kind = "totp"
                /\ t.secret = ReqUser(c).secret
                /\ t.off \in (0 - TotpWindow)..TotpWindow
                /\ LET old == ReqUser(c).backupCodes
                       new == users'[sessions[c].user].backupCodes
                   IN /\ Len(new) = BackupCodeCount
                      /\ \A i \in 1..Len(new) : ~new[i].used
                      /\ \A i \in 1..Len(new), j \in 1..Len(old) : new[i].code # old[j].code
                      /\ \A i, j \in 1..Len(new) : new[i].code = new[j].code => i = j
                      /\ \A j \in 1..Len(old) :
                            \A u \in 1..Len(users) : ~InBatch(users'[u], old[j].code)
       /\ \A c \in Clients :
             (inflight[c] = Idle /\ inflight'[c] # Idle)
             => \A t \in {inflight'[c].tok} \cap BackupTokens :
                   ReplacedCode(t)
                   => /\ \A e \in LoginEmails, p \in Passwords : ~LoginBegin(c, e, p, t)
                      /\ ~VerifyBegin(c, t)
       /\ last'.op \in {"login", "verify"}
          => \A c \in {last'.c} \cap Clients, t \in {last'.tok} \cap BackupTokens :
                (/\ ReplacedCode(t)
                 /\ \/ \E e \in LoginEmails, p \in Passwords : Login(c, e, p, t)
                    \/ \E b \in BOOLEAN : Verify(c, t, b))
                => last'.method # "backup" /\ accepted' = accepted
      ]_vars

\* C18 witness: a regeneration has just replaced a batch one code of which
\* had been consumed, and its first code is now a code of a replaced batch.
C18_Witness ==
    /\ last.op = "regenerate"
    /\ last.status = 200
    /\ \E t \in BackupTokens :
          /\ ReplacedCode(t)
          /\ accepted[t.code] = 1
          /\ t.code \notin retired.codes
    /\ \A i \in 1..BackupCodeCount : ~ReqUser(last.c).backupCodes[i].used

\* What a setup request of an authenticated session of an account that is not
\* enabled does: answered 200 with a secret never issued before, which replaces
\* the account's secret, pending or none; the account stays not enabled and
\* nothing else of it changes.
SetupStoresNewSecret(c) ==
    LET u == sessions[c].user IN
    /\ last'.status = 200
    /\ last'.key \notin 0..secretCtr
    /\ users'[u].secret = last'.key
    /\ users'[u].secret # users[u].secret
    /\ ~users'[u].isEnabled
    /\ users' = [users EXCEPT ![u].secret = last'.key]
    /\ sessions' = sessions

\* C19 as stated: a setup request of an authenticated session stores a new
\* pending secret when the account is not enabled, and is answered 400 and
\* changes nothing when the account is enabled.
C19_SetupFailsWith400WhenEnabled ==
    [][last'.op = "setup"
       => \A c \in {last'.c} \cap Clients :
             (isAuthenticated(c) /\ Setup(c))
             => IF ~ReqUser(c).isEnabled
                THEN SetupStoresNewSecret(c)
                ELSE last'.status = 400 /\ UNCHANGED <<users, sessions>>]_vars

\* C19 amended: a setup request of an authenticated session stores a new
\* pending secret when the account is not enabled; when the account is enabled
\* it changes nothing, and is answered 400 by the handler if the session is
\* twoFactorVerified and otherwise stopped by the session gate with another
\* answer that is neither 200 nor 400.
C19_SetupOnEnabledChangesNothing ==
    [][last'.op = "setup"
       => \A c \in {last'.c} \cap Clients :
             (isAuthenticated(c) /\ Setup(c))
             => IF ~ReqUser(c).isEnabled
                THEN SetupStoresNewSecret(c)
                ELSE /\ UNCHANGED <<users, sessions>>
                     /\ sessions[c].twoFactorVerified
                        => last'.status = 400 /\ last'.msg = "2FA already enabled"
                     /\ ~sessions[c].twoFactorVerified
                        => last'.status \notin {200, 400}]_vars

\* C19 witness: a second setup request before any confirmation replaced the
\* pending secret of an account that was never enabled.
C19_Witness ==
    /\ last.op = "setup"
    /\ last.status = 200
    /\ last.key = 2
    /\ ReqUser(last.c).secret = 2
    /\ ~ReqUser(last.c).isEnabled
    /\ batchCtr = 0

\* No two accounts have the same email, whatever the case of its letters.
EmailUnique ==
    \A i, j \in 1..Len(users) :
        ToLowerCase(users[i].email) = ToLowerCase(users[j].email) => i = j

\* Supporting C20: the emails of the accounts stay unique under every
\* interleaving of registrations and Google sign-ins.
C20_EmailStaysUnique == EmailUnique

\* C20: the emails of the accounts are unique, case-insensitively, in every
\* state, and a register request that completes when an account with its
\* email exists is answered 409 and leaves the accounts unchanged.
C20_UniqueEmailAndDuplicateIs409 ==
    /\ []EmailUnique
    /\ [][last'.op = "register"
          => \A c \in {last'.c} \cap Clients :
                (/\ findByEmail(last'.email) # NoUser
                 /\ \/ \E e \in AnyCaseEmails, p \in RegisterPasswords : Register(c, e, p)
                    \/ RegisterSave(c))
                => last'.status = 409 /\ users' = users]_vars

\* C20 witness: a registration that found no account with its email, and
\* completed after another request had created one, was answered 500.
C20_Witness ==
    /\ last.op = "register"
    /\ last.status = 500
    /\ findByEmail(last.email) # NoUser
    /\ EmailUnique

\* The session a local login without a code leaves for account u.
LocalLoginSession(u, user) ==
    LoginSession([step |-> IF RequiresSecondFactor(user) THEN "pending" ELSE "complete",
                  a |-> [u |-> u]])

\* C21: a Google sign-in takes the account with the profile's id, else the
\* account with the profile's email, to which it writes the id, else creates
\* one; the session it leaves is the one a local login without a code leaves
\* for that account: the same loginTime and the same pendingTwoFactor and
\* twoFactorVerified.
C21_FederatedLoginEntersLikeLocal ==
    [][last'.op = "google"
       => \A c \in {last'.c} \cap Clients, g \in GoogleProfiles :
             Google(c, g)
             => LET u == last'.user IN
                /\ findByGoogleId(g.id) # NoUser
                   => u = findByGoogleId(g.id) /\ users' = users
                /\ (findByGoogleId(g.id) = NoUser /\ findByEmail(g.email) # NoUser)
                   => /\ u = findByEmail(g.email)
                      /\ users' = [users EXCEPT ![u].googleId = g.id]
                /\ (findByGoogleId(g.id) = NoUser /\ findByEmail(g.email) = NoUser)
                   => /\ u = Len(users) + 1
                      /\ Len(users') = u
                      /\ users'[u].email = ToLowerCase(g.email)
                      /\ users'[u].googleId = g.id
                      /\ \A i \in 1..Len(users) : users'[i] = users[i]
                /\ sessions'[c] = LocalLoginSession(u, users'[u])]_vars

\* C21 witness: a Google sign-in to an enabled account left a pending session
\* without a login time.
C21_Witness ==
    /\ last.op = "google"
    /\ last.status = 302
    /\ sessions[last.c] # NoSession
    /\ sessions[last.c].user = last.user
    /\ ReqUser(last.c).isEnabled
    /\ sessions[last.c].pendingTwoFactor
    /\ ~sessions[last.c].twoFactorVerified
    /\ sessions[last.c].loginTime = Null

\* What the client sees of a response: the status and the body.
ApiResponse(r) ==
    [status |-> r.status, msg |-> r.msg, requiresTwoFactor |-> r.requiresTwoFactor,
     user |-> r.user]

\* What the client would see of a login sent now.
LoginApiResponse(email, pw, tok) ==
    ApiResponse(LoginResp("c1", email, pw, tok, LoginPlan(email, pw, tok)))

NoAccount(email) == findByEmail(email) = NoUser

\* C22: in every state, a login for an email without an account and a login
\* with a wrong password for an active local account that is not locked get
\* the same response: 401 "Invalid email or password".
C22_NotFoundAndBadPasswordAlike ==
    \A e1, e2 \in LoginEmails, p1, p2 \in Passwords, t \in {NoToken, CurrentTotp} :
        (/\ NoAccount(e1)
         /\ ~NoAccount(e2)
         /\ ~isLocked(users[findByEmail(e2)])
         /\ WrongPasswordFor(users[findByEmail(e2)], p2))
        => /\ LoginApiResponse(e1, p1, t) = LoginApiResponse(e2, p2, t)
           /\ LoginApiResponse(e2, p2, t).status = 401
           /\ LoginApiResponse(e2, p2, t).msg = "Invalid email or password"

\* C22 witness: a wrong password for the account has just been refused, after
\* earlier failures, while another email has no account.
C22_Witness ==
    /\ last.op = "login"
    /\ last.outcome = "bad_password"
    /\ last.msg = "Invalid email or password"
    /\ users[LastAccount].loginAttempts = 2
    /\ ~isLocked(users[LastAccount])
    /\ \E e \in LoginEmails : NoAccount(e)

\* C23: in every state, a login with a wrong password for an existing account,
\* locked or not, gets the response that a login for an email without an
\* account gets.
C23_FailedLoginRevealsNothing ==
    \A e1, e2 \in LoginEmails, p1, p2 \in Passwords :
        (/\ NoAccount(e1)
         /\ ~NoAccount(e2)
         /\ ~comparePassword(users[findByEmail(e2)], p2))
        => LoginApiResponse(e1, p1, NoToken) = LoginApiResponse(e2, p2, NoToken)

\* C23 witness: a login with a wrong password was answered with the lock
\* message.
C23_Witness ==
    /\ last.op = "login"
    /\ last.outcome = "locked"
    /\ last.status = 401
    /\ last.msg = "Account temporarily locked"
    /\ ~comparePassword(users[LastAccount], last.pw)

LockoutFields(user) == <<user.loginAttempts, user.lockUntil>>

\* C24: a login that ends in not_found, locked, inactive or wrong_provider
\* leaves loginAttempts and lockUntil of every account as they were; a login
\* that ends in bad_password is answered 401 with the failure increment
\* already applied to the account, and to no other.
C24_OnlyBadPasswordCountsFailure ==
    [][last'.op = "login"
       => \A c \in {last'.c} \cap Clients, e \in {last'.email} \cap LoginEmails,
             p \in {last'.pw} \cap Passwords :
             Login(c, e, p, NoToken)
             => /\ last'.outcome \in {"not_found", "locked", "inactive", "wrong_provider"}
                   => /\ Len(users') = Len(users)
                      /\ \A u \in 1..Len(users) :
                            LockoutFields(users'[u]) = LockoutFields(users[u])
                /\ last'.outcome = "bad_password"
                   => /\ last'.status = 401
                      /\ users' = [users EXCEPT ![findByEmail(e)] = incLoginAttempts(@)]
                      /\ LockoutFields(users'[findByEmail(e)])
                            # LockoutFields(users[findByEmail(e)])
                /\ last'.outcome \in {"not_found", "locked", "inactive", "wrong_provider",
                                      "bad_password", "success"}]_vars

\* C24 witness: a login to a deactivated account that has two failures on
\* record was refused as inactive.
C24_Witness ==
    /\ last.op = "login"
    /\ last.outcome = "inactive"
    /\ users[LastAccount].loginAttempts = 2
    /\ users[LastAccount].lockUntil = Null
    /\ \E u \in 1..Len(users) : users[u].authProvider = "google"

\* C25: recordFailure on an account whose lock has already expired sets the
\* counter to 1 and clears lockUntil; otherwise it adds one to the counter, and
\* sets lockUntil to now plus the lock time exactly when the new counter has
\* reached MaxLoginAttempts and the account is not locked now, leaving
\* lockUntil as it was in the other cases; nothing else of the account changes.
C25_RecordFailure ==
    [][\A u \in 1..Len(users) :
          RecordFailure(u)
          => LET old == users[u]
                 new == users'[u]
                 expired == old.lockUntil # Null /\ old.lockUntil < now
                 locked == old.lockUntil # Null /\ old.lockUntil > now
             IN /\ expired => new.loginAttempts = 1 /\ new.lockUntil = Null
                /\ ~expired
                   => /\ new.loginAttempts = old.loginAttempts + 1
                      /\ (new.loginAttempts >= MaxLoginAttempts /\ ~locked)
                         => new.lockUntil = now + LockTime
                      /\ ~(new.loginAttempts >= MaxLoginAttempts /\ ~locked)
                         => new.lockUntil = old.lockUntil
                /\ new = [old EXCEPT !.loginAttempts = new.loginAttempts,
                                     !.lockUntil = new.lockUntil]]_vars

\* C25 witness: a failure recorded after the lock of five failures had
\* expired left a counter of 1 and no lock.
C25_Witness ==
    /\ last.op = "recordFailure"
    /\ last.lockWas # Null
    /\ last.lockWas < now
    /\ users[1].loginAttempts = 1
    /\ users[1].lockUntil = Null

\* A login with these inputs passes the password check of an account with
\* 2FA and carries a code that is neither a valid TOTP token nor an unused
\* backup code of the account.
WrongSecondFactor(e, p, t) ==
    LET u == findByEmail(e) IN
    /\ u # NoUser
    /\ users[u].isActive
    /\ ~isLocked(users[u])
    /\ comparePassword(users[u], p)
    /\ users[u].isEnabled
    /\ t # NoToken
    /\ ~CorrectCode(users[u], t, FALSE)
    /\ ~CorrectCode(users[u], t, TRUE)

\* C26: a login with the right password and a wrong second-factor code on an
\* account with 2FA is answered 401, leaves the browser with an authenticated
\* session of the account, and leaves the account with a failure counter no
\* higher than before and without a lock.
C26_SecondFactorFailureDoesNotLock ==
    [][last'.op = "login"
       => \A c \in {last'.c} \cap Clients, e \in {last'.email} \cap LoginEmails,
             p \in {last'.pw} \cap Passwords, t \in {last'.tok} \cap (Tokens \cup {WrongTotp}) :
             (WrongSecondFactor(e, p, t) /\ Login(c, e, p, t))
             => LET u == findByEmail(e) IN
                /\ last'.status = 401
                /\ last'.msg = "Invalid 2FA code"
                /\ sessions'[c] # NoSession
                /\ sessions'[c].user = u
                /\ sessions'[c].expires > now
                /\ users'[u].loginAttempts <= users[u].loginAttempts
                /\ users'[u].loginAttempts < MaxLoginAttempts
                /\ users'[u].lockUntil = Null]_vars

\* C26 witness: a login with a wrong code, sent once the lock of five
\* password failures had run out, left a session and an account without a lock.
C26_Witness ==
    /\ last.op = "login"
    /\ last.msg = "Invalid 2FA code"
    /\ last.tok = WrongTotp
    /\ last.lockWas # Null
    /\ isAuthenticated(last.c)
    /\ sessions[last.c].user = LastAccount
    /\ users[LastAccount].loginAttempts = 0
    /\ users[LastAccount].lockUntil = Null

\* C27: after a login with the right password and a wrong second-factor code
\* on an account with 2FA, the session has pendingTwoFactor = true and
\* twoFactorVerified = false: it is the session a login without a code leaves.
C27_WrongCodeLeavesPendingSession ==
    [][last'.op = "login"
       => \A c \in {last'.c} \cap Clients, e \in {last'.email} \cap LoginEmails,
             p \in {last'.pw} \cap Passwords, t \in {last'.tok} \cap (Tokens \cup {WrongTotp}) :
             (WrongSecondFactor(e, p, t) /\ Login(c, e, p, t))
             => /\ sessions'[c].pendingTwoFactor
                /\ ~sessions'[c].twoFactorVerified
                /\ sessions'[c] = LocalLoginSession(findByEmail(e), users[findByEmail(e)])]_vars

\* C27 witness: a login with a wrong code left an authenticated session of
\* an account with 2FA that has neither flag set.
C27_Witness ==
    /\ last.op = "login"
    /\ last.msg = "Invalid 2FA code"
    /\ isAuthenticated(last.c)
    /\ ReqUser(last.c).isEnabled
    /\ ~sessions[last.c].pendingTwoFactor
    /\ ~sessions[last.c].twoFactorVerified
\* A login with these inputs passes the password check of an account with 2FA
\* and carries a code.
SecondFactorLogin(e, p, t) ==
    LET u == findByEmail(e) IN
    /\ u # NoUser
    /\ users[u].isActive
    /\ ~isLocked(users[u])
    /\ comparePassword(users[u], p)
    /\ users[u].isEnabled
    /\ t # NoToken

\* The positions of the stored backup codes that are unused and spell the
\* token, whatever the case the token was typed in.
UnusedMatches(user, t) ==
    {i \in 1..Len(user.backupCodes) :
        /\ t.kind = "backup"
        /\ user.backupCodes[i].code = t.code
        /\ ~user.backupCodes[i].used}

\* The positions whose used flag differs between two arrays of backup codes.
Consumed(before, after) ==
    {i \in 1..Len(before) : i <= Len(after) /\ ~before[i].used /\ after[i].used}

\* C28: a code sent with the login of an account with 2FA is checked as a TOTP
\* token first: a token inside the window is accepted by method totp and no
\* backup code changes.  Only a code that fails as TOTP is looked up, in any
\* case, among the unused backup codes: a hit is accepted by method backup and
\* that one code is consumed.  Either success leaves the session with
\* twoFactorVerified = true and pendingTwoFactor = false and answers 200
\* with requiresTwoFactor = false; a code that fails both consumes nothing.
C28_LoginCodeTotpThenBackup ==
    [][last'.op = "login"
       => \A c \in {last'.c} \cap Clients, e \in {last'.email} \cap LoginEmails,
             p \in {last'.pw} \cap Passwords, t \in {last'.tok} \cap (Tokens \cup {WrongTotp}) :
             (SecondFactorLogin(e, p, t) /\ Login(c, e, p, t))
             => LET u == findByEmail(e)
                    before == users[u].backupCodes
                    after == users'[u].backupCodes
                    totp == /\ t.kind = "totp"
                            /\ t.secret = users[u].secret
                            /\ t.off \in (0 - TotpWindow)..TotpWindow
                    hits == UnusedMatches(users[u], t)
                IN /\ Len(after) = Len(before)
                   /\ \A i \in 1..Len(before) : after[i].code = before[i].code
                   /\ totp => /\ last'.method = "totp"
                              /\ Consumed(before, after) = {}
                   /\ (~totp /\ hits # {})
                        => /\ last'.method = "backup"
                           /\ Cardinality(Consumed(before, after)) = 1
                           /\ Consumed(before, after) \subseteq hits
                   /\ (totp \/ hits # {})
                        => /\ last'.status = 200
                           /\ ~last'.requiresTwoFactor
                           /\ sessions'[c] # NoSession
                           /\ sessions'[c].user = u
                           /\ sessions'[c].twoFactorVerified
                           /\ ~sessions'[c].pendingTwoFactor
                   /\ (~totp /\ hits = {})
                        => /\ last'.status = 401
                           /\ Consumed(before, after) = {}]_vars

\* C28 witness: a login carried a backup code typed in lower case; it was
\* accepted on the fallback path, the stored code is now used and the session
\* is verified.
C28_Witness ==
    /\ last.op = "login"
    /\ last.status = 200
    /\ last.tok = FirstBackupCode
    /\ last.tok.lower
    /\ last.method = "backup"
    /\ isAuthenticated(last.c)
    /\ sessions[last.c].twoFactorVerified
    /\ ~sessions[last.c].pendingTwoFactor
    /\ \E i \in 1..Len(users[LastAccount].backupCodes) :
          /\ users[LastAccount].backupCodes[i].code = last.tok.code
          /\ users[LastAccount].backupCodes[i].used
\* C29: on POST /api/2fa/verify the flag isBackupCode alone decides how the
\* token is checked.  Without the flag no backup code is consumed, a backup
\* code is not accepted, and an accepted token is a TOTP token inside the
\* window of the account's secret.  With the flag a TOTP token is not
\* accepted even when it is valid, and an accepted token is an unused backup
\* code of the account, which the request consumes.
C29_FlagAloneSelectsTheCheck ==
    [][last'.op = "verify"
       => \A c \in {last'.c} \cap Clients, t \in {last'.tok} \cap Tokens,
             b \in {last'.isBackupCode} \cap BOOLEAN :
             (isAuthenticated(c) /\ Verify(c, t, b))
             => LET u == sessions[c].user
                    before == users[u].backupCodes
                    after == users'[u].backupCodes
                    totp == /\ t.kind = "totp"
                            /\ t.secret = users[u].secret
                            /\ t.off \in (0 - TotpWindow)..TotpWindow
                    hits == UnusedMatches(users[u], t)
                    ok == last'.status = 200
                IN /\ Len(after) = Len(before)
                   /\ \A i \in 1..Len(before) : after[i].code = before[i].code
                   /\ ~b => /\ Consumed(before, after) = {}
                            /\ accepted' = accepted
                            /\ ok => totp
                            /\ t.kind = "backup" => ~ok
                   /\ b => /\ ok => /\ hits # {}
                                    /\ Cardinality(Consumed(before, after)) = 1
                                    /\ Consumed(before, after) \subseteq hits
                           /\ ~ok => Consumed(before, after) = {}
                           /\ t.kind = "totp" => ~ok]_vars

\* C29 witness: the verify handler was reached with isBackupCode = true and
\* a TOTP token valid for the account's secret, and answered 401.
C29_Witness ==
    /\ last.op = "verify"
    /\ last.isBackupCode
    /\ last.status = 401
    /\ last.msg = "Invalid token"
    /\ isAuthenticated(last.c)
    /\ ReqUser(last.c).isEnabled
    /\ TotpVerify(ReqUser(last.c).secret, last.tok)
\* C30: whenever a session has twoFactorVerified = true, the account of the
\* session has 2FA enabled.
C30_VerifiedOnlyWhileEnabled ==
    \A c \in Clients :
        (sessions[c] # NoSession /\ sessions[c].twoFactorVerified)
            => users[sessions[c].user].isEnabled

\* C30 witness: 2FA was just disabled from one browser while another browser
\* holds a live session of the same account that a code had verified.
C30_Witness ==
    /\ last.op = "disable"
    /\ last.status = 200
    /\ \E c \in Clients \ {last.c} :
          /\ isAuthenticated(c)
          /\ isAuthenticated(last.c)
          /\ sessions[c].user = sessions[last.c].user
          /\ sessions[c].twoFactorVerified
          /\ ~sessions[last.c].twoFactorVerified
          /\ ~users[sessions[c].user].isEnabled
\* The two second-factor flags of a session are never both true.
FlagsExclusive ==
    \A c \in Clients :
        isAuthenticated(c) => ~(sessions[c].pendingTwoFactor /\ sessions[c].twoFactorVerified)

\* C31: in an authenticated session pendingTwoFactor and twoFactorVerified
\* are never both true, and they are both false only when the account of the
\* session does not have 2FA enabled.
C31_FlagsExclusiveAndBothFalseOnlyWithout2FA ==
    /\ FlagsExclusive
    /\ \A c \in Clients :
          (/\ isAuthenticated(c)
           /\ ~sessions[c].pendingTwoFactor
           /\ ~sessions[c].twoFactorVerified)
              => ~ReqUser(c).isEnabled

\* C31 witness: verify-setup has just enabled 2FA from a session, and the
\* session has both flags false.
C31_Witness ==
    /\ last.op = "verify-setup"
    /\ last.status = 200
    /\ isAuthenticated(last.c)
    /\ ReqUser(last.c).isEnabled
    /\ ~sessions[last.c].pendingTwoFactor
    /\ ~sessions[last.c].twoFactorVerified
\* The token is inside the TOTP window of the user's secret.
TotpChecks(user, t) ==
    /\ t # NoToken
    /\ t.kind = "totp"
    /\ user.secret # NoSecret
    /\ t.secret = user.secret
    /\ t.off \in (0 - TotpWindow)..TotpWindow

\* The request just answered carried a code that, checked against the account
\* as it was stored when the request arrived, is a valid TOTP token or an
\* unused backup code, by the check of the route it was sent to.
CodeCheckSucceeded(user) ==
    /\ last'.status = 200
    /\ last'.tok # NoToken
    /\ user.isEnabled
    /\ \/ /\ last'.op = "login"
          /\ TotpChecks(user, last'.tok) \/ UnusedMatches(user, last'.tok) # {}
       \/ /\ last'.op = "verify"
          /\ IF last'.isBackupCode THEN UnusedMatches(user, last'.tok) # {}
                                   ELSE TotpChecks(user, last'.tok)

\* C32: a session gets twoFactorVerified = true only in a login or verify
\* request of that session whose code passed the TOTP or backup-code check;
\* a request of another session never sets it, and the session that a
\* registration or a login establishes has the flag false unless the login
\* carried a code that passed the check.
C32_VerifiedOnlyAfterCodeCheck ==
    [][\A c \in Clients :
          LET was == sessions[c] # NoSession /\ sessions[c].twoFactorVerified
              is == sessions'[c] # NoSession /\ sessions'[c].twoFactorVerified
          IN /\ (is /\ ~was)
                  => /\ last'.c = c
                     /\ last'.op \in {"login", "verify"}
                     /\ CodeCheckSucceeded(users[sessions'[c].user])
             /\ (is /\ last'.c = c /\ last'.op \in {"login", "register", "google"}
                    /\ last'.status \in {200, 201, 302})
                  => /\ last'.op = "login"
                     /\ CodeCheckSucceeded(users[sessions'[c].user])]_vars

\* C32 witness: a login with a code that passed the check left its session
\* verified, while the account's other browser, logged in without a code,
\* is still not verified.
C32_Witness ==
    /\ last.op = "login"
    /\ last.status = 200
    /\ last.method \in {"totp", "backup"}
    /\ isAuthenticated(last.c)
    /\ sessions[last.c].twoFactorVerified
    /\ \E c \in Clients \ {last.c} :
          /\ isAuthenticated(c)
          /\ sessions[c].user = sessions[last.c].user
          /\ sessions[c].pendingTwoFactor
          /\ ~sessions[c].twoFactorVerified
\* C33: however the setup, verify-setup and disable requests of one account
\* overlap, an account with isEnabled = true has a secret; when an account
\* becomes enabled, or the secret of an enabled account changes, the step is
\* the completion of a verify-setup whose token verifies against the secret
\* now stored; and a completed disable leaves the account not enabled,
\* without a secret and without backup codes.
C33_EnabledSecretIsConfirmed ==
    [][\A u \in 1..Len(users') :
          LET a == users'[u] IN
          /\ a.isEnabled => a.secret # NoSecret
          /\ (/\ u <= Len(users)
              /\ a.isEnabled
              /\ ~users[u].isEnabled \/ a.secret # users[u].secret)
                => /\ last'.op = "verify-setup"
                   /\ last'.status = 200
                   /\ TotpChecks(a, last'.tok)
          /\ (/\ last' # last
              /\ last'.op = "disable"
              /\ last'.status = 200
              /\ u = sessions[last'.c].user)
                => /\ ~a.isEnabled
                   /\ a.secret = NoSecret
                   /\ a.backupCodes = <<>>]_vars

\* C33 witness: a verify-setup whose token had verified completed after a
\* disable of the other browser, and the account is enabled without a secret.
C33_Witness ==
    /\ last.op = "verify-setup"
    /\ last.status = 200
    /\ isAuthenticated(last.c)
    /\ ReqUser(last.c).isEnabled
    /\ ReqUser(last.c).secret = NoSecret
    /\ Len(ReqUser(last.c).backupCodes) = BackupCodeCount
\* The stored batch has ten codes when the account is Enabled and none otherwise.
BatchSizeFixed(user) ==
    Len(user.backupCodes) = IF user.isEnabled THEN BackupCodeCount ELSE 0

UsedCount(user) ==
    Cardinality({i \in 1..Len(user.backupCodes) : user.backupCodes[i].used})

\* C34: when requests are handled one after the other, every account stores
\* ten backup codes while Enabled and none otherwise, never more used codes
\* than codes, and a request that accepts a backup code changes the used and
\* usedAt fields of exactly one stored code and nothing else of the batch.
C34_BatchOfTenAndSingleConsumption ==
    [][/\ \A u \in 1..Len(users') :
             /\ BatchSizeFixed(users'[u])
             /\ UsedCount(users'[u]) <= Len(users'[u].backupCodes)
       /\ (last'.method = "backup" /\ last'.status = 200 /\ last'.c \in Clients)
            => LET u == sessions'[last'.c].user
                   before == users[u].backupCodes
                   after == users'[u].backupCodes
                   changed == {i \in 1..Len(before) : after[i] # before[i]}
               IN /\ Len(after) = Len(before)
                  /\ Cardinality(changed) = 1
                  /\ \A i \in changed :
                        /\ after[i].code = before[i].code
                        /\ ~before[i].used
                        /\ after[i].used
                        /\ after[i].usedAt = now
                  /\ users'[u].secret = users[u].secret
                  /\ users'[u].isEnabled = users[u].isEnabled
                  /\ \A v \in 1..Len(users) : v # u => users'[v] = users[v]]_vars

\* C34 witness: a backup code was just accepted, and the Enabled account
\* stores ten codes of which one or more are used.
C34_Witness ==
    /\ last.method = "backup"
    /\ last.status = 200
    /\ isAuthenticated(last.c)
    /\ ReqUser(last.c).isEnabled
    /\ Len(ReqUser(last.c).backupCodes) = BackupCodeCount
    /\ UsedCount(ReqUser(last.c)) >= 1
\* C35: however wrong-password logins on one account overlap, an account
\* whose stored failure counter is 5 or more has a lock set.
C35_FiveFailuresAlwaysLock ==
    \A u \in 1..Len(users) :
        users[u].loginAttempts >= MaxLoginAttempts => users[u].lockUntil # Null

\* C35 witness: two overlapping wrong-password logins have completed, the
\* counter is 5 and no lock was set.
C35_Witness ==
    /\ last.op = "login"
    /\ last.outcome = "bad_password"
    /\ \A c \in Clients : inflight[c] = Idle
    /\ LastAccount # NoUser
    /\ users[LastAccount].loginAttempts >= MaxLoginAttempts
    /\ users[LastAccount].lockUntil = Null
\* C36: while an account is locked no step changes its failure counter or its
\* lockUntil: a login with the right or a wrong password is refused and
\* leaves both as they were, so the lock ends at the hour it was given when it
\* was set, the hour of the failure that set it plus the lock time.
C36_LockedAccountIsFrozen ==
    [][\A u \in 1..Len(users) :
          /\ isLocked(users[u])
               => /\ users'[u].loginAttempts = users[u].loginAttempts
                  /\ users'[u].lockUntil = users[u].lockUntil
                  /\ (last'.op = "login" /\ last' # last /\ findByEmail(last'.email) = u)
                       => /\ last'.status = 401
                          /\ last'.outcome = "locked"
                          /\ sessions' = sessions
          /\ (users'[u].lockUntil # Null /\ users'[u].lockUntil # users[u].lockUntil)
               => users'[u].lockUntil = now + LockTime]_vars

\* C36 witness: a login with a wrong password was refused one hour before the
\* end of the lock, and the counter and the lock are as the fifth failure left
\* them.
C36_Witness ==
    /\ last.op = "login"
    /\ last.outcome = "locked"
    /\ LastAccount # NoUser
    /\ ~comparePassword(users[LastAccount], last.pw)
    /\ users[LastAccount].loginAttempts = MaxLoginAttempts
    /\ users[LastAccount].lockUntil = last.lockWas
    /\ users[LastAccount].lockUntil = now + 1
\* C37: a wrong-password login on an account whose lock is over, lockUntil
\* set and not after now, the hour lockUntil itself included, leaves the
\* failure counter at 1 and lockUntil cleared.
C37_FailureAfterLockRestartsAtOne ==
    [][last'.op = "login"
       => \A c \in {last'.c} \cap Clients, e \in {last'.email} \cap LoginEmails,
             p \in {last'.pw} \cap Passwords :
             LET u == findByEmail(e) IN
             (/\ u # NoUser
              /\ users[u].lockUntil # Null
              /\ users[u].lockUntil <= now
              /\ WrongPasswordFor(users[u], p)
              /\ Login(c, e, p, NoToken))
             => /\ users'[u].loginAttempts = 1
                /\ users'[u].lockUntil = Null]_vars

\* C37 witness: a wrong password sent in the very hour the lock ended was
\* counted as the sixth failure and started a new lock.
C37_Witness ==
    /\ last.op = "login"
    /\ last.outcome = "bad_password"
    /\ last.lockWas = now
    /\ LastAccount # NoUser
    /\ users[LastAccount].loginAttempts = MaxLoginAttempts + 1
    /\ users[LastAccount].lockUntil = now + LockTime
\* C38: no authenticated session belongs to a deactivated account.
C38_DeactivatedHasNoSession ==
    \A c \in Clients : isAuthenticated(c) => ReqUser(c).isActive

\* A local login to a deactivated account is refused as inactive and
\* establishes no session.
LocalLoginRefusesInactive ==
    [][(/\ last'.op = "login"
        /\ last' # last
        /\ findByEmail(last'.email) # NoUser
        /\ ~users[findByEmail(last'.email)].isActive)
       => /\ last'.status = 401
          /\ last'.outcome = "inactive"
          /\ sessions' = sessions]_vars

\* C38 witness: the account was just deleted from one browser, whose session
\* is gone, and the other browser still holds an authenticated session of it.
C38_Witness ==
    /\ last.op = "account"
    /\ last.status = 200
    /\ sessions[last.c] = NoSession
    /\ \E c \in Clients \ {last.c} :
          /\ isAuthenticated(c)
          /\ ~ReqUser(c).isActive
          /\ ToLowerCase(ReqUser(c).email) = ToLowerCase(last.email)
\* The browser holds a session of an account with 2FA that has not passed
\* the second factor.
Unverified(c) ==
    /\ isAuthenticated(c)
    /\ ReqUser(c).isEnabled
    /\ ~sessions[c].twoFactorVerified

\* C39: a request sent with the session of an account with 2FA that has not
\* passed the second factor (any request but a new login) leaves the
\* account's password, secret, backup codes and enabled flag as they were.
C39_UnverifiedSessionChangesNothing ==
    [][\A c \in {last'.c} \cap Clients :
          (Unverified(c) /\ last'.op \notin {"login", "register", "google"})
          => LET u == sessions[c].user IN
             /\ users'[u].password = users[u].password
             /\ users'[u].secret = users[u].secret
             /\ users'[u].backupCodes = users[u].backupCodes
             /\ users'[u].isEnabled = users[u].isEnabled]_vars

\* C39 witness: a session that a login without a code left pending has just
\* changed the password of its account.
C39_Witness ==
    /\ last.op = "change-password"
    /\ last.status = 200
    /\ Unverified(last.c)
    /\ sessions[last.c].pendingTwoFactor
    /\ ~comparePassword(ReqUser(last.c), last.pw)
\* C40: a verify-setup, verify, disable or regenerate request that is not
\* answered 200 leaves every account and every session as it was: the
\* secret, the backup codes with their used flags, the enabled flag, and the
\* session's twoFactorVerified and pendingTwoFactor.
C40_RejectedOperationChangesNothing ==
    [][(/\ last'.op \in {"verify-setup", "verify", "disable", "regenerate"}
        /\ last'.status # 200)
       => /\ users' = users
          /\ sessions' = sessions
          /\ accepted' = accepted]_vars

\* C40 witness: from a verified session, a backup code that was already used
\* was sent to /2fa/verify again and refused; the session is still verified
\* and the code still used.
C40_Witness ==
    /\ last.op = "verify"
    /\ last.status = 401
    /\ last.isBackupCode
    /\ last.tok = FirstBackupCode
    /\ isAuthenticated(last.c)
    /\ sessions[last.c].twoFactorVerified
    /\ UsedCount(ReqUser(last.c)) = 1
    /\ UnusedMatches(ReqUser(last.c), last.tok) = {}
====
